---- MODULE Spec2Model ----
(***************************************************************************)
(* State-machine model of src/src/video_v4l2.c (Motion's V4L2 capture      *)
(* layer): the device registry (v4l2_start / v4l2_cleanup), the per-device *)
(* ownership window and capture cycle (v4l2_next, v4l2_device_select,      *)
(* v4l2_capture), the control staging/apply passes (v4l2_parms_set,        *)
(* v4l2_ctrls_set, v4l2_autobright) and format negotiation                 *)
(* (v4l2_pixfmt_select).  The kernel side of every ioctl is modelled by    *)
(* the K_* operators; hardware errors are chosen nondeterministically.     *)
(***************************************************************************)
EXTENDS Integers, Sequences, FiniteSets, TLC

\* ------------------------------------------------------------------------
\* Program constants
\* ------------------------------------------------------------------------
MMAP_BUFFERS == 4
MIN_MMAP_BUFFERS == 2
V4L2_PALETTE_COUNT_MAX == 21
NULL == 0
\* curdev->owner = -1 : nobody owns the device
NoOwner == -1
\* v4l2_autobright: parm_hysteresis, parm_damper
parm_hysteresis == 20
parm_damper == 20

\* enum v4l2_ctrl_type as used by the switch in v4l2_parms_set; a menu item
\* sub-descriptor is stored with ctrl_type = 0 (v4l2_ctrls_list)
V4L2_CTRL_TYPE_INTEGER == 1
V4L2_CTRL_TYPE_BOOLEAN == 2
V4L2_CTRL_TYPE_MENU == 3
MenuItemType == 0
\* a field of a malloc()ed descriptor that v4l2_ctrls_list never assigns
Uninit == "uninit"

\* control identifiers named by v4l2_autobright
V4L2_CID_BRIGHTNESS == 9963776
V4L2_CID_EXPOSURE == 9963793
V4L2_CID_EXPOSURE_ABSOLUTE == 10094850
\* further controls of the user class (a menu and a boolean control)
V4L2_CID_POWER_LINE_FREQUENCY == V4L2_CID_BRIGHTNESS + 24
V4L2_CID_AUTO_WHITE_BALANCE == V4L2_CID_BRIGHTNESS + 12

\* ------------------------------------------------------------------------
\* Bounds of the model
\* ------------------------------------------------------------------------
\* number of address ranges mmap() can hand out before it reports ENOMEM
MaxRegions == 4
\* largest roundrobin_skip value of a configuration
MaxSkip == 2
\* largest roundrobin_frames value of a configuration
MaxFrames == 2

Threads == {1, 2}
Slots == {1, 2}
Paths == {"/dev/video0", "/dev/video1"}
FdIds == {3, 4}
Regions == 1..MaxRegions

\* ------------------------------------------------------------------------
\* Small helpers
\* ------------------------------------------------------------------------
MAX2(x, y) == IF x > y THEN x ELSE y
MIN2(x, y) == IF x < y THEN x ELSE y

\* C integer division (truncation toward zero), y > 0
cdiv(x, y) == IF x >= 0 THEN x \div y ELSE -((-x) \div y)
\* C remainder, y > 0
cmod(x, y) == x - y * cdiv(x, y)

SetMin(S) == CHOOSE x \in S : \A y \in S : x <= y

RECURSIVE SeqSum(_)
SeqSum(s) == IF s = <<>> THEN 0 ELSE Head(s) + SeqSum(Tail(s))

NoFmt == [pixelformat |-> 0, width |-> 0, height |-> 0, bytesperline |-> 0]

\* NULL pointers to a buffer array, a src_v4l2_t and a struct vdev_context
NoBuffers == <<>>
NoPrivate ==
    [alloc |-> FALSE, fd_device |-> -1, pframe |-> -1, buf_index |-> 0,
     buffers |-> NoBuffers, req_count |-> 0, cap_streaming |-> FALSE,
     dst_fmt |-> NoFmt, finish |-> NULL]
NoVdev == [alloc |-> FALSE, params_array |-> <<>>, update_params |-> FALSE]

\* ------------------------------------------------------------------------
\* Strings: parameter values are sequences of one-character strings so that
\* atoi() and snprintf("%d") are computed; names are atomic strings compared
\* without regard to case (mystrceq).
\* ------------------------------------------------------------------------
Digits == <<"0", "1", "2", "3", "4", "5", "6", "7", "8", "9">>
IsDigit(c) == \E i \in 1..10 : Digits[i] = c
DigitVal(c) == (CHOOSE i \in 1..10 : Digits[i] = c) - 1

RECURSIVE atoi_digits(_, _)
atoi_digits(s, acc) ==
    IF s = <<>> \/ ~IsDigit(Head(s)) THEN acc
    ELSE atoi_digits(Tail(s), acc * 10 + DigitVal(Head(s)))

RECURSIVE atoi(_)
atoi(s) ==
    IF s = <<>> THEN 0
    ELSE IF Head(s) = " " THEN atoi(Tail(s))
    ELSE IF Head(s) = "-" THEN -atoi_digits(Tail(s), 0)
    ELSE IF Head(s) = "+" THEN atoi_digits(Tail(s), 0)
    ELSE atoi_digits(s, 0)

RECURSIVE utoa(_)
utoa(n) == IF n < 10 THEN <<Digits[n + 1]>>
           ELSE utoa(n \div 10) \o <<Digits[(n % 10) + 1]>>

\* snprintf(buf, 32, "%d", n)
itoa(n) == IF n < 0 THEN <<"-">> \o utoa(-n) ELSE utoa(n)

\* tolower() on the names the model uses
ToLower(s) ==
    CASE s = "Brightness" -> "brightness"
      [] s = "Exposure" -> "exposure"
      [] s = "Power Line Frequency" -> "power line frequency"
      [] s = "Disabled" -> "disabled"
      [] s = "50 Hz" -> "50 hz"
      [] s = "White Balance, Automatic" -> "white balance, automatic"
      [] s = "Exposure (Absolute)" -> "exposure (absolute)"
      [] s = "id09963776" -> "id09963776"
      [] s = "ID09963776" -> "id09963776"
      [] s = "ID09963793" -> "id09963793"
      [] s = "ID09963800" -> "id09963800"
      [] s = "ID09963788" -> "id09963788"
      [] s = "ID10094850" -> "id10094850"
      [] OTHER -> s

mystrceq(a, b) == ToLower(a) = ToLower(b)
mystreq(a, b) == a = b

\* sprintf(ctrl_iddesc, "ID%08d", vid_ctrl.id)
IdDesc(id) == "ID" \o
    (CASE id = V4L2_CID_BRIGHTNESS -> "09963776"
       [] id = V4L2_CID_EXPOSURE -> "09963793"
       [] id = V4L2_CID_POWER_LINE_FREQUENCY -> "09963800"
       [] id = V4L2_CID_EXPOSURE_ABSOLUTE -> "10094850"
       [] OTHER -> "09963788")

\* sprintf(ctrl_iddesc, "menu item: Value %d", indx)
MenuDesc(indx) == "menu item: Value " \o
    (CASE indx = 0 -> "0" [] indx = 1 -> "1" [] indx = 2 -> "2" [] OTHER -> "3")

\* ------------------------------------------------------------------------
\* Control Manager: staging (v4l2_parms_set), apply with retry and rollback
\* (v4l2_ctrls_set, v4l2_parm_reset)
\* ------------------------------------------------------------------------
ParamMatches(devitem, usritem) ==
    \/ mystrceq(devitem.ctrl_iddesc, usritem.param_name)
    \/ mystrceq(devitem.ctrl_name, usritem.param_name)

\* variant of StageValue that stores the requested number as it is, without
\* the comparison against ctrl_minimum / ctrl_maximum
StageValue_unclamped(devitem, usritem) ==
    IF ~ParamMatches(devitem, usritem) THEN [item |-> devitem, warns |-> 0]
    ELSE IF devitem.ctrl_type \in {V4L2_CTRL_TYPE_MENU, V4L2_CTRL_TYPE_INTEGER,
                                   V4L2_CTRL_TYPE_BOOLEAN} THEN
        [item |-> [devitem EXCEPT !.ctrl_newval = atoi(usritem.param_value)], warns |-> 0]
    ELSE [item |-> devitem, warns |-> 0]

\* the switch on ctrl_type of v4l2_parms_set for one (descriptor, user
\* parameter) pair: the staged descriptor and the number of out-of-range
\* warnings logged
StageValue(devitem, usritem) ==
    IF ~ParamMatches(devitem, usritem) THEN [item |-> devitem, warns |-> 0]
    ELSE IF devitem.ctrl_type \in {V4L2_CTRL_TYPE_MENU, V4L2_CTRL_TYPE_INTEGER} THEN
        IF atoi(usritem.param_value) < devitem.ctrl_minimum THEN
            [item |-> [devitem EXCEPT !.ctrl_newval = devitem.ctrl_minimum], warns |-> 1]
        ELSE IF atoi(usritem.param_value) > devitem.ctrl_maximum THEN
            [item |-> [devitem EXCEPT !.ctrl_newval = devitem.ctrl_maximum], warns |-> 1]
        ELSE
            [item |-> [devitem EXCEPT !.ctrl_newval = atoi(usritem.param_value)], warns |-> 0]
    ELSE IF devitem.ctrl_type = V4L2_CTRL_TYPE_BOOLEAN THEN
        [item |-> [devitem EXCEPT !.ctrl_newval =
                       IF atoi(usritem.param_value) # 0 THEN 1 ELSE 0], warns |-> 0]
    ELSE \* "control type not supported yet": nothing is staged
        [item |-> devitem, warns |-> 0]

\* the inner loop over the user parameters for one descriptor
RECURSIVE StageItem(_, _, _, _)
StageItem(devitem, params, indx_user, warns) ==
    IF indx_user > Len(params) THEN [item |-> devitem, warns |-> warns]
    ELSE LET r == StageValue(devitem, params[indx_user])
         IN  StageItem(r.item, params, indx_user + 1, warns + r.warns)

\* the outer loop over the descriptors
RECURSIVE StageAll(_, _, _, _)
StageAll(ctrls, params, indx_dev, warns) ==
    IF indx_dev > Len(ctrls) THEN [ctrls |-> ctrls, warns |-> warns]
    ELSE LET r == StageItem(ctrls[indx_dev], params, 1, 0)
         IN  StageAll([ctrls EXCEPT ![indx_dev] = r.item], params,
                      indx_dev + 1, warns + r.warns)

\* v4l2_parms_set(cnt, curdev): c is the context, d the device record.
\* Result: the context, the device and the number of warnings logged.
v4l2_parms_set(c, d) ==
    LET c1 == IF c.conf_roundrobin_skip < 0
              THEN [c EXCEPT !.conf_roundrobin_skip = 1] ELSE c
    IN  IF Len(d.devctrl) = 0
        THEN [cnt |-> [c1 EXCEPT !.vdev.update_params = FALSE], dev |-> d,
              warns |-> 0, retcd |-> 0]
        ELSE LET r == StageAll(d.devctrl, c1.vdev.params_array, 1, 0)
             IN  [cnt |-> c1, dev |-> [d EXCEPT !.devctrl = r.ctrls],
                  warns |-> r.warns, retcd |-> 0]

\* v4l2_parm_reset: rewrite every user parameter mapped to the descriptor and
\* reset the requested value to the current one
ResetParam(devitem, usritem) ==
    IF ParamMatches(devitem, usritem)
    THEN [usritem EXCEPT !.param_value = itoa(devitem.ctrl_currval)]
    ELSE usritem

\* variant of v4l2_parm_reset that leaves the user parameters as entered
v4l2_parm_reset_keep(params, ctrls, indx_dev) ==
    [params |-> params,
     ctrls |-> [ctrls EXCEPT ![indx_dev].ctrl_newval = ctrls[indx_dev].ctrl_currval]]

\* variant of v4l2_parm_reset that leaves the requested value as staged
v4l2_parm_reset_staged(params, ctrls, indx_dev) ==
    [params |-> [i \in 1..Len(params) |-> ResetParam(ctrls[indx_dev], params[i])],
     ctrls |-> ctrls]

v4l2_parm_reset(params, ctrls, indx_dev) ==
    [params |-> [i \in 1..Len(params) |-> ResetParam(ctrls[indx_dev], params[i])],
     ctrls |-> [ctrls EXCEPT ![indx_dev].ctrl_newval = ctrls[indx_dev].ctrl_currval]]

\* does the apply loop of v4l2_ctrls_set attempt descriptor i ?
NeedsSet(devitem) ==
    devitem.ctrl_menuitem = FALSE /\ devitem.ctrl_currval # devitem.ctrl_newval

\* Phase 1 (lines 352-372): st = [ctrls, hw, calls, failed]; rej is the set
\* of descriptor indexes whose VIDIOC_S_CTRL the device rejects in this pass.
RECURSIVE CtrlPhase1(_, _, _)
CtrlPhase1(st, indx_dev, rej) ==
    IF indx_dev > Len(st.ctrls) THEN st
    ELSE LET devitem == st.ctrls[indx_dev] IN
         IF ~NeedsSet(devitem) THEN CtrlPhase1(st, indx_dev + 1, rej)
         ELSE LET call == [req |-> "VIDIOC_S_CTRL", arg |-> devitem.ctrl_id,
                           val |-> devitem.ctrl_newval] IN
              IF indx_dev \in rej
              THEN CtrlPhase1([st EXCEPT !.calls = Append(@, call), !.failed = TRUE],
                              indx_dev + 1, rej)
              ELSE CtrlPhase1([st EXCEPT !.calls = Append(@, call),
                                         !.hw = [@ EXCEPT ![devitem.ctrl_id] = devitem.ctrl_newval],
                                         !.ctrls[indx_dev].ctrl_currval = devitem.ctrl_newval],
                              indx_dev + 1, rej)

\* Phase 2 (lines 380-406): retried once, rolled back on a second failure.
RECURSIVE CtrlPhase2(_, _, _)
CtrlPhase2(st, indx_dev, rej) ==
    IF indx_dev > Len(st.ctrls) THEN st
    ELSE LET devitem == st.ctrls[indx_dev] IN
         IF ~NeedsSet(devitem) THEN CtrlPhase2(st, indx_dev + 1, rej)
         ELSE LET call == [req |-> "VIDIOC_S_CTRL", arg |-> devitem.ctrl_id,
                           val |-> devitem.ctrl_newval] IN
              IF indx_dev \in rej
              THEN LET r == v4l2_parm_reset(st.params, st.ctrls, indx_dev)
                   IN  CtrlPhase2([st EXCEPT !.calls = Append(@, call),
                                             !.params = r.params, !.ctrls = r.ctrls,
                                             !.rolled = @ \cup {indx_dev}],
                                  indx_dev + 1, rej)
              ELSE CtrlPhase2([st EXCEPT !.calls = Append(@, call),
                                         !.hw = [@ EXCEPT ![devitem.ctrl_id] = devitem.ctrl_newval],
                                         !.ctrls[indx_dev].ctrl_currval = devitem.ctrl_newval],
                              indx_dev + 1, rej)

\* variant of v4l2_ctrls_set without the second pass
v4l2_ctrls_set_once(c, d, hw, rej1, rej2) ==
    IF d.priv = NoPrivate
    THEN [cnt |-> c, dev |-> d, hw |-> hw, calls |-> <<>>, rolled |-> {}, retcd |-> -1]
    ELSE LET st0 == [ctrls |-> d.devctrl, params |-> c.vdev.params_array, hw |-> hw,
                     calls |-> <<>>, failed |-> FALSE, rolled |-> {}]
             st1 == CtrlPhase1(st0, 1, rej1)
         IN  [cnt |-> c, dev |-> [d EXCEPT !.devctrl = st1.ctrls],
              hw |-> st1.hw, calls |-> st1.calls, rolled |-> {}, retcd |-> 0]

\* v4l2_ctrls_set(cnt, curdev).  hw: the control values held by the device;
\* rej1 / rej2: what the device rejects in the first / second pass.
v4l2_ctrls_set(c, d, hw, rej1, rej2) ==
    IF d.priv = NoPrivate
    THEN [cnt |-> c, dev |-> d, hw |-> hw, calls |-> <<>>, rolled |-> {}, retcd |-> -1]
    ELSE LET st0 == [ctrls |-> d.devctrl, params |-> c.vdev.params_array, hw |-> hw,
                     calls |-> <<>>, failed |-> FALSE, rolled |-> {}]
             st1 == CtrlPhase1(st0, 1, rej1)
             st2 == IF st1.failed THEN CtrlPhase2(st1, 1, rej2) ELSE st1
         IN  [cnt |-> [c EXCEPT !.vdev.params_array = st2.params],
              dev |-> [d EXCEPT !.devctrl = st2.ctrls],
              hw |-> st2.hw, calls |-> st2.calls, rolled |-> st2.rolled, retcd |-> 0]

\* ------------------------------------------------------------------------
\* Autobrightness Controller (v4l2_autobright)
\* ------------------------------------------------------------------------
AutoTargetId(method) ==
    CASE method = 1 -> V4L2_CID_BRIGHTNESS
      [] method = 2 -> V4L2_CID_EXPOSURE
      [] OTHER -> V4L2_CID_EXPOSURE_ABSOLUTE

AutoTargetName(method) ==
    CASE method = 1 -> "brightness"
      [] method = 2 -> "exposure"
      [] OTHER -> "exposure (absolute)"

\* lines 497-512: the last user parameter naming the control gives the target
RECURSIVE AutoUserTarget(_, _, _, _)
AutoUserTarget(params, method, indx, target) ==
    IF indx > Len(params) THEN target
    ELSE LET usritem == params[indx] IN
         IF \/ mystrceq(usritem.param_name, AutoTargetName(method))
            \/ mystrceq(usritem.param_name, IdDesc(AutoTargetId(method)))
         THEN AutoUserTarget(params, method, indx + 1, atoi(usritem.param_value))
         ELSE AutoUserTarget(params, method, indx + 1, target)

\* lines 514-539: st = [device_value, parm_max, parm_min, target]
RECURSIVE AutoFindCtrl(_, _, _, _)
AutoFindCtrl(ctrls, method, indx, st) ==
    IF indx > Len(ctrls) THEN st
    ELSE LET devitem == ctrls[indx] IN
         IF devitem.ctrl_id = AutoTargetId(method)
         THEN AutoFindCtrl(ctrls, method, indx + 1,
                  [device_value |-> devitem.ctrl_currval,
                   parm_max |-> devitem.ctrl_maximum,
                   parm_min |-> devitem.ctrl_minimum,
                   target |-> IF st.target = -1
                              THEN cdiv(devitem.ctrl_maximum - devitem.ctrl_minimum, 2)
                              ELSE st.target])
         ELSE AutoFindCtrl(ctrls, method, indx + 1, st)

\* image[indx] of the normalized frame: the frame repeats the pattern
\* c.image
Pixel(image, indx) == image[(indx % Len(image)) + 1]

\* lines 545-551: sum and count of every 10th pixel
RECURSIVE AutoSample(_, _, _, _, _)
AutoSample(image, motionsize, indx, avg, pixel_count) ==
    IF indx >= motionsize THEN [avg |-> avg, pixel_count |-> pixel_count]
    ELSE AutoSample(image, motionsize, indx + 10, avg + Pixel(image, indx),
                    pixel_count + 1)

\* lines 554-556: the sample scaled into the control's range
AutoScaled(sum, pixel_count, parm_max, parm_min) ==
    cdiv(cdiv(sum, pixel_count) * (parm_max - parm_min), 255)

\* lines 558-585: the new device value, or the old one when there is no
\* change; result [device_value, make_change]
AutoStep(avg, target, device_value, parm_max, parm_min) ==
    LET window_high == MIN2(target + parm_hysteresis, parm_max)
        window_low == MAX2(target - parm_hysteresis, parm_min)
    IN  IF avg > window_high THEN
            LET step == MIN2(cdiv(avg - target, parm_damper) + 1, device_value - parm_min)
            IN  IF device_value > step + 1 - parm_min
                THEN [device_value |-> device_value - step, make_change |-> TRUE]
                ELSE [device_value |-> parm_min, make_change |-> TRUE]
        ELSE IF avg < window_low THEN
            LET step == MIN2(cdiv(target - avg, parm_damper) + 1, parm_max - device_value)
            IN  IF device_value < parm_max - step
                THEN [device_value |-> device_value + step, make_change |-> TRUE]
                ELSE [device_value |-> parm_max, make_change |-> TRUE]
        ELSE [device_value |-> device_value, make_change |-> FALSE]

\* variant of v4l2_autobright that takes the value it stages for applied
v4l2_autobright_applied(c, d, method) ==
    IF method = 0 \/ method > 3 THEN [dev |-> d, retcd |-> 0, sigfpe |-> FALSE]
    ELSE LET t0 == AutoUserTarget(c.vdev.params_array, method, 1, -1)
             f == AutoFindCtrl(d.devctrl, method, 1,
                      [device_value |-> -1, parm_max |-> 255, parm_min |-> 0,
                       target |-> t0])
         IN  IF f.device_value = -1 THEN [dev |-> d, retcd |-> 0, sigfpe |-> FALSE]
             ELSE LET smp == AutoSample(c.image, c.imgs_motionsize, 0, 0, 0) IN
                  IF smp.pixel_count = 0 THEN [dev |-> d, retcd |-> 0, sigfpe |-> TRUE]
                  ELSE LET avg == AutoScaled(smp.avg, smp.pixel_count, f.parm_max, f.parm_min)
                           r == AutoStep(avg, f.target, f.device_value, f.parm_max, f.parm_min)
                       IN  [dev |-> IF r.make_change
                                    THEN [d EXCEPT !.devctrl =
                                            [i \in 1..Len(d.devctrl) |->
                                               IF d.devctrl[i].ctrl_id = AutoTargetId(method)
                                               THEN [d.devctrl[i] EXCEPT !.ctrl_newval = r.device_value,
                                                                    !.ctrl_currval = r.device_value]
                                               ELSE d.devctrl[i]]]
                                    ELSE d,
                            retcd |-> 0, sigfpe |-> FALSE]

\* v4l2_autobright(cnt, curdev, method): the device record with the requested
\* value of the target control staged; sigfpe when the frame has no pixel
\* (division by pixel_count = 0)
v4l2_autobright(c, d, method) ==
    IF method = 0 \/ method > 3 THEN [dev |-> d, retcd |-> 0, sigfpe |-> FALSE]
    ELSE LET t0 == AutoUserTarget(c.vdev.params_array, method, 1, -1)
             f == AutoFindCtrl(d.devctrl, method, 1,
                      [device_value |-> -1, parm_max |-> 255, parm_min |-> 0,
                       target |-> t0])
         IN  IF f.device_value = -1 THEN [dev |-> d, retcd |-> 0, sigfpe |-> FALSE]
             ELSE LET smp == AutoSample(c.image, c.imgs_motionsize, 0, 0, 0) IN
                  IF smp.pixel_count = 0 THEN [dev |-> d, retcd |-> 0, sigfpe |-> TRUE]
                  ELSE LET avg == AutoScaled(smp.avg, smp.pixel_count, f.parm_max, f.parm_min)
                           r == AutoStep(avg, f.target, f.device_value, f.parm_max, f.parm_min)
                       IN  [dev |-> IF r.make_change
                                    THEN [d EXCEPT !.devctrl =
                                            [i \in 1..Len(d.devctrl) |->
                                               IF d.devctrl[i].ctrl_id = AutoTargetId(method)
                                               THEN [d.devctrl[i] EXCEPT !.ctrl_newval = r.device_value]
                                               ELSE d.devctrl[i]]]
                                    ELSE d,
                            retcd |-> 0, sigfpe |-> FALSE]

\* ------------------------------------------------------------------------
\* Pixel Format Catalog (v4l2_palette_init)
\* ------------------------------------------------------------------------
Upper == <<"A", "B", "C", "D", "E", "F", "G", "H", "I", "J", "K", "L", "M",
           "N", "O", "P", "Q", "R", "S", "T", "U", "V", "W", "X", "Y", "Z">>
\* the character code of a character of a four-character code
Ord(c) == IF c = " " THEN 32
          ELSE IF IsDigit(c) THEN 48 + DigitVal(c)
          ELSE 64 + (CHOOSE i \in 1..26 : Upper[i] = c)

\* v4l2_fourcc(a, b, c, d): little-endian packed ASCII
v4l2_fourcc(cc) == Ord(cc[1]) + Ord(cc[2]) * 256 + Ord(cc[3]) * 65536
                   + Ord(cc[4]) * 16777216

\* palette_array[0..21] (index i of the source is entry i + 1 here)
PaletteChars ==
    << <<"S", "9", "1", "0">>, <<"B", "Y", "R", "2">>, <<"B", "A", "8", "1">>,
       <<"S", "5", "6", "1">>, <<"G", "B", "R", "G">>, <<"G", "R", "B", "G">>,
       <<"P", "2", "0", "7">>, <<"P", "J", "P", "G">>, <<"M", "J", "P", "G">>,
       <<"J", "P", "E", "G">>, <<"R", "G", "B", "3">>, <<"S", "5", "0", "1">>,
       <<"S", "5", "0", "5">>, <<"S", "5", "0", "8">>, <<"U", "Y", "V", "Y">>,
       <<"Y", "U", "Y", "V">>, <<"4", "2", "2", "P">>, <<"Y", "U", "1", "2">>,
       <<"Y", "1", "0", " ">>, <<"Y", "1", "2", " ">>, <<"G", "R", "E", "Y">>,
       <<"H", "2", "6", "4">> >>

\* v4l2_palette_init: the table of the format codes
palette_array == [indx \in 0..V4L2_PALETTE_COUNT_MAX |-> v4l2_fourcc(PaletteChars[indx + 1])]
palette_v4l2id(indx) == palette_array[indx]
V4L2_PIX_FMT_H264 == palette_v4l2id(21)
V4L2_PIX_FMT_YUV420 == palette_v4l2id(17)
V4L2_PIX_FMT_YUYV == palette_v4l2id(15)
V4L2_PIX_FMT_MJPEG == palette_v4l2id(8)
\* the character with code n (the conversion %c of sprintf)
Chr(n) == IF n = 32 THEN " "
          ELSE IF n >= 48 /\ n <= 57 THEN Digits[n - 47]
          ELSE IF n >= 65 /\ n <= 90 THEN Upper[n - 64]
          ELSE "?"

\* variant of palette_fourcc that prints the most significant byte first
palette_fourcc_msb(indx) ==
    <<Chr((palette_array[indx] \div 16777216) % 256),
      Chr((palette_array[indx] \div 65536) % 256),
      Chr((palette_array[indx] \div 256) % 256),
      Chr(palette_array[indx] % 256)>>

\* v4l2_palette_init, lines 119-125: palette_array[indx].fourcc, printed
\* with "%c%c%c%c" from v4l2id >> 0, >> 8, >> 16 and >> 24
palette_fourcc(indx) ==
    <<Chr(palette_array[indx] % 256),
      Chr((palette_array[indx] \div 256) % 256),
      Chr((palette_array[indx] \div 65536) % 256),
      Chr((palette_array[indx] \div 16777216) % 256)>>

\* a format code outside the catalog ("NV12")
V4L2_PIX_FMT_NV12 == v4l2_fourcc(<<"N", "V", "1", "2">>)

\* ------------------------------------------------------------------------
\* The kernel side of the device boundary.  prof is the description of the
\* hardware behind a device node; k is the state of one open file of it.
\* ------------------------------------------------------------------------
KClosed == [open |-> FALSE, path |-> "", streaming |-> FALSE, nbufs |-> 0,
            bstate |-> <<>>, fifo |-> <<>>]

KOpened(path) == [KClosed EXCEPT !.open = TRUE, !.path = path]

\* VIDIOC_TRY_FMT: the format the driver would use for the request
\* the format a driver answers with when it is asked for one it does not
\* accept: the first one of its list that it accepts, 0 without one
K_Preferred(prof) ==
    IF \E i \in 1..Len(prof.fmts) : prof.fmts[i] \in prof.accepts
    THEN prof.fmts[SetMin({i \in 1..Len(prof.fmts) : prof.fmts[i] \in prof.accepts})]
    ELSE 0

K_TRY_FMT(prof, width, height, pixformat) ==
    LET w == IF prof.fixed_w = 0 THEN width ELSE prof.fixed_w
        h == IF prof.fixed_h = 0 THEN height ELSE prof.fixed_h
    IN  [pixelformat |-> IF pixformat \in prof.accepts
                         THEN pixformat ELSE K_Preferred(prof),
         width |-> w, height |-> h,
         bytesperline |-> prof.bpl_mul * w + prof.bpl_pad]

\* VIDIOC_REQBUFS: count buffers allocated, none queued
K_REQBUFS(k, count) ==
    [k EXCEPT !.nbufs = count, !.bstate = [i \in 1..count |-> "deq"], !.fifo = <<>>]

\* VIDIOC_QBUF of buffer index: refused unless the buffer exists and is not
\* already queued
K_QBUF_ok(k, index) ==
    k.open /\ index >= 0 /\ index < k.nbufs /\ k.bstate[index + 1] = "deq"
K_QBUF(k, index) ==
    [k EXCEPT !.bstate[index + 1] = "queued", !.fifo = Append(@, index)]

\* VIDIOC_DQBUF: the oldest queued buffer, filled
K_DQBUF_ok(k) == k.open /\ k.streaming /\ k.fifo # <<>>
K_DQBUF(k) ==
    [k EXCEPT !.bstate[Head(k.fifo) + 1] = "deq", !.fifo = Tail(@)]

K_STREAMON(k) == [k EXCEPT !.streaming = TRUE]
K_STREAMOFF(k) ==
    [k EXCEPT !.streaming = FALSE, !.fifo = <<>>,
              !.bstate = [i \in 1..k.nbufs |-> "deq"]]

\* a hardware error injected into one device call of a step: name is the
\* failing request, at the buffer index (or attempt) it fails at
Fault(name, at) == [name |-> name, at |-> at]
\* F is the set of injected errors; a call on a descriptor that is not open
\* fails as well (EBADF)
Fails(w, F, name) == ~w.k.open \/ \E f \in F : f.name = name
FailsAt(w, F, name, indx) == ~w.k.open \/ Fault(name, indx) \in F

\* ------------------------------------------------------------------------
\* Operations on a device.  Each takes and returns a record w holding what
\* the C function can touch: the caller's context (cnt), the device record
\* (dev), the open file in the kernel (k), the input/standard/frequency the
\* hardware is switched to (sel), the control values the hardware holds
\* (ctl), the mapped address ranges (regions), the device calls issued so
\* far (calls), the out-of-range warnings logged (warns) and the function's
\* return code (retcd).
\* ------------------------------------------------------------------------
Call(req, arg, val) == [req |-> req, arg |-> arg, val |-> val]
Issue(w, req) == [w EXCEPT !.calls = Append(@, Call(req, 0, 0))]
Ret(w, retcd) == [w EXCEPT !.retcd = retcd]

v4l2_input_select(w, prof, F) ==
    IF w.cnt.param_input = w.dev.input /\ ~w.dev.starting THEN Ret(w, 0)
    ELSE LET index == IF w.cnt.param_input = -1 THEN 0 ELSE w.cnt.param_input
             w1 == Issue(w, "VIDIOC_ENUMINPUT")
         IN  IF Fails(w, F, "VIDIOC_ENUMINPUT") \/ index < 0 \/ index >= prof.ninputs
             THEN Ret(w1, -1)
             ELSE LET w2 == Issue(w1, "VIDIOC_S_INPUT") IN
                  IF Fails(w, F, "VIDIOC_S_INPUT") THEN Ret(w2, -1)
                  ELSE Ret([w2 EXCEPT !.sel.input = index,
                                      !.dev.input = w.cnt.param_input,
                                      !.dev.device_type = prof.input_type], 0)

\* the std_id the switch on param_norm selects
NormStd(param_norm) ==
    CASE param_norm = 1 -> "NTSC" [] param_norm = 2 -> "SECAM" [] OTHER -> "PAL"

v4l2_norm_select(w, prof, F) ==
    IF w.cnt.param_norm = w.dev.norm /\ ~w.dev.starting THEN Ret(w, 0)
    ELSE LET w1 == Issue(w, "VIDIOC_G_STD") IN
         IF Fails(w, F, "VIDIOC_G_STD") \/ ~prof.has_std
         THEN Ret([w1 EXCEPT !.cnt.param_norm = 0, !.dev.norm = 0], 0)
         ELSE LET w2 == Issue(Issue(w1, "VIDIOC_ENUMSTD"), "VIDIOC_S_STD")
                  w3 == IF Fails(w, F, "VIDIOC_S_STD") THEN w2
                        ELSE [w2 EXCEPT !.sel.std = NormStd(w.cnt.param_norm)]
              IN  Ret([w3 EXCEPT !.dev.norm = w.cnt.param_norm], 0)

v4l2_frequency_select(w, prof, F) ==
    IF w.cnt.param_freq = w.dev.frequency /\ ~w.dev.starting THEN Ret(w, 0)
    ELSE IF w.dev.device_type = "tuner" THEN
         LET w1 == Issue(w, "VIDIOC_G_TUNER") IN
         IF Fails(w, F, "VIDIOC_G_TUNER") THEN Ret(w1, 0)
         ELSE LET w2 == Issue(w1, "VIDIOC_S_FREQUENCY") IN
              IF Fails(w, F, "VIDIOC_S_FREQUENCY") THEN Ret(w2, 0)
              ELSE Ret([w2 EXCEPT !.sel.freq = cdiv(w.cnt.param_freq, 1000) * 16,
                                  !.dev.frequency = w.cnt.param_freq], 0)
    ELSE Ret([w EXCEPT !.dev.frequency = w.cnt.param_freq], 0)

\* ------------------------------------------------------------------------
\* Format Negotiator
\* ------------------------------------------------------------------------
\* lines 944-958: a size that is not a multiple of 8 is raised to the next one
\* variant of RoundUp8 that rounds down
RoundUp8_down(n) == IF cmod(n, 8) # 0 THEN n - cmod(n, 8) ELSE n

RoundUp8(n) == IF cmod(n, 8) # 0 THEN n - cmod(n, 8) + 8 ELSE n

\* attempt: 0 for the configured palette, 1 for the palette found by the
\* scan of the advertised formats
v4l2_pixfmt_try(w, prof, F, pixformat, attempt) ==
    LET w1 == Issue(w, "VIDIOC_TRY_FMT")
        req == [pixelformat |-> pixformat, width |-> w.cnt.conf_width,
                height |-> w.cnt.conf_height, bytesperline |-> 0]
    IN  IF FailsAt(w, F, "VIDIOC_TRY_FMT", attempt) \/ Len(prof.fmts) = 0
        THEN Ret([w1 EXCEPT !.dev.priv.dst_fmt = req], -1)
        ELSE LET fmt == K_TRY_FMT(prof, w.cnt.conf_width, w.cnt.conf_height, pixformat)
             IN  Ret([w1 EXCEPT !.dev.priv.dst_fmt = fmt],
                     IF fmt.pixelformat # pixformat THEN -1 ELSE 0)

v4l2_pixfmt_stride(w) ==
    LET fmt == w.dev.priv.dst_fmt
        bpl == fmt.bytesperline
        wd == fmt.width
        w1 == [w EXCEPT !.dev.width = fmt.width, !.dev.height = fmt.height]
    IN  IF bpl = 0 THEN Ret(w1, 0)
        ELSE IF wd > bpl THEN Ret(w1, -1)
        ELSE IF wd = bpl \/ cmod(bpl, wd) = 0 THEN Ret(w1, 0)
        ELSE LET wps == cdiv(bpl, wd)
             IN  Ret([w1 EXCEPT !.dev.width = wd + cdiv(cmod(bpl, wd), wps)], 0)

\* variant of v4l2_pixfmt_adj that takes every size the device answers
v4l2_pixfmt_adj_any(w) ==
    IF w.dev.width # w.cnt.conf_width \/ w.dev.height # w.cnt.conf_height
    THEN Ret([w EXCEPT !.cnt.conf_width = w.dev.width,
                       !.cnt.conf_height = w.dev.height], 0)
    ELSE Ret(w, 0)

v4l2_pixfmt_adj(w) ==
    IF w.dev.width # w.cnt.conf_width \/ w.dev.height # w.cnt.conf_height
    THEN IF cmod(w.dev.width, 8) # 0 \/ cmod(w.dev.height, 8) # 0
         THEN Ret(w, -1)
         ELSE Ret([w EXCEPT !.cnt.conf_width = w.dev.width,
                            !.cnt.conf_height = w.dev.height], 0)
    ELSE Ret(w, 0)

v4l2_pixfmt_set(w, prof, F, pixformat, attempt) ==
    LET w1 == v4l2_pixfmt_try(w, prof, F, pixformat, attempt) IN
    IF w1.retcd = -1 THEN w1
    ELSE LET w2 == v4l2_pixfmt_stride(w1) IN
         IF w2.retcd = -1 THEN w2
         ELSE LET w3 == v4l2_pixfmt_adj(w2) IN
              IF w3.retcd = -1 THEN w3
              ELSE LET w4 == Issue(w3, "VIDIOC_S_FMT") IN
                   IF FailsAt(w, F, "VIDIOC_S_FMT", attempt) THEN Ret(w4, -1)
                   ELSE Ret([w4 EXCEPT !.dev.pixfmt_src = pixformat], 0)

\* lines 960-965: the last "palette" parameter, 17 without one
RECURSIVE UserPalette(_, _, _)
UserPalette(params, indx, indx_palette) ==
    IF indx > Len(params) THEN indx_palette
    ELSE UserPalette(params, indx + 1,
             IF mystreq(params[indx].param_name, "palette")
             THEN atoi(params[indx].param_value) ELSE indx_palette)

\* variant of ScanCatalog without the test that leaves H264 out
RECURSIVE ScanCatalog_any(_, _, _)
ScanCatalog_any(pixelformat, indx, indx_palette) ==
    IF indx > V4L2_PALETTE_COUNT_MAX THEN indx_palette
    ELSE ScanCatalog_any(pixelformat, indx + 1,
             IF palette_v4l2id(indx) = pixelformat THEN indx ELSE indx_palette)

\* lines 1004-1009 for one advertised format: the catalog index it sets
RECURSIVE ScanCatalog(_, _, _)
ScanCatalog(pixelformat, indx, indx_palette) ==
    IF indx > V4L2_PALETTE_COUNT_MAX THEN indx_palette
    ELSE ScanCatalog(pixelformat, indx + 1,
             IF palette_v4l2id(indx) = pixelformat
                /\ palette_v4l2id(indx) # V4L2_PIX_FMT_H264
             THEN indx ELSE indx_palette)

\* lines 992-1014: the VIDIOC_ENUM_FMT loop over the advertised formats
RECURSIVE ScanAdvertised(_, _, _)
ScanAdvertised(fmts, v4l2_pal, indx_palette) ==
    IF v4l2_pal > Len(fmts) THEN indx_palette
    ELSE ScanAdvertised(fmts, v4l2_pal + 1,
                        ScanCatalog(fmts[v4l2_pal], 0, indx_palette))

v4l2_pixfmt_select(w, prof, F) ==
    LET w0 == [w EXCEPT !.cnt.conf_width = RoundUp8(w.cnt.conf_width),
                        !.cnt.conf_height = RoundUp8(w.cnt.conf_height)]
        p0 == UserPalette(w.cnt.vdev.params_array, 1, 17)
        indx_palette == IF p0 = 21 THEN 17 ELSE p0
        first == indx_palette >= 0 /\ indx_palette <= V4L2_PALETTE_COUNT_MAX
        w1 == IF first
              THEN v4l2_pixfmt_set(w0, prof, F, palette_v4l2id(indx_palette), 0)
              ELSE w0
    IN  IF first /\ w1.retcd >= 0 THEN Ret(w1, 0)
        ELSE LET w2 == Issue(w1, "VIDIOC_ENUM_FMT")
                 found == ScanAdvertised(prof.fmts, 1, -1)
             IN  IF found >= 0
                 THEN LET w3 == v4l2_pixfmt_set(w2, prof, F, palette_v4l2id(found), 1)
                      IN  IF w3.retcd >= 0 THEN Ret(w3, 0) ELSE Ret(w3, -1)
                 ELSE Ret(w2, -1)

\* ------------------------------------------------------------------------
\* Control Catalog (v4l2_ctrls_count, v4l2_ctrls_list)
\* ------------------------------------------------------------------------
\* the descriptor of one control reported by VIDIOC_QUERYCTRL
CtrlEntry(q, curr) ==
    [ctrl_id |-> q.id, ctrl_type |-> q.type, ctrl_default |-> q.default_value,
     ctrl_currval |-> curr, ctrl_newval |-> curr, ctrl_menuitem |-> FALSE,
     ctrl_name |-> q.name, ctrl_iddesc |-> IdDesc(q.id),
     ctrl_minimum |-> q.minimum, ctrl_maximum |-> q.maximum]

\* the synthetic sub-descriptor of one menu option
MenuEntry(q, item) ==
    [ctrl_id |-> q.id, ctrl_type |-> MenuItemType, ctrl_default |-> Uninit,
     ctrl_currval |-> Uninit, ctrl_newval |-> Uninit, ctrl_menuitem |-> TRUE,
     ctrl_name |-> item.name, ctrl_iddesc |-> MenuDesc(item.index),
     ctrl_minimum |-> 0, ctrl_maximum |-> 0]

\* lines 258-278: the options VIDIOC_QUERYMENU answers for, minimum..maximum
RECURSIVE MenuEntries(_, _)
MenuEntries(q, indx) ==
    IF indx > q.maximum THEN <<>>
    ELSE (IF \E i \in 1..Len(q.menu) : q.menu[i].index = indx
          THEN <<MenuEntry(q, q.menu[CHOOSE i \in 1..Len(q.menu) : q.menu[i].index = indx])>>
          ELSE <<>>) \o MenuEntries(q, indx + 1)

\* gfail: VIDIOC_G_CTRL fails, the default value stands for the current one
RECURSIVE CtrlEntries(_, _, _, _)
CtrlEntries(queryctrl, ctl, gfail, indx) ==
    IF indx > Len(queryctrl) THEN <<>>
    ELSE LET q == queryctrl[indx]
             curr == IF gfail THEN q.default_value ELSE ctl[q.id]
         IN  <<CtrlEntry(q, curr)>>
             \o (IF q.type = V4L2_CTRL_TYPE_MENU THEN MenuEntries(q, q.minimum) ELSE <<>>)
             \o CtrlEntries(queryctrl, ctl, gfail, indx + 1)

\* v4l2_ctrls_count followed by v4l2_ctrls_list: the array is allocated
\* when at least one control was counted
v4l2_ctrls_list(w, prof, F) ==
    LET list == IF w.k.open
                THEN CtrlEntries(prof.ctrls, w.ctl, Fails(w, F, "VIDIOC_G_CTRL"), 1)
                ELSE <<>>
    IN  Ret([Issue(w, "VIDIOC_QUERYCTRL") EXCEPT
                !.dev.devctrl = list,
                !.ctrl_arrays = IF Len(list) > 0 THEN @ + 1 ELSE @], 0)

\* v4l2_fps_set: a failure of VIDIOC_S_PARM is logged only
v4l2_fps_set(w) == Ret(Issue(w, "VIDIOC_S_PARM"), 0)

\* ------------------------------------------------------------------------
\* Buffer Pool Manager (v4l2_mmap_request / _query / _queue / _set,
\* v4l2_capture)
\* ------------------------------------------------------------------------
FreeRegions(regions) == Regions \ regions

\* variant of v4l2_mmap_request that accepts any number of buffers
v4l2_mmap_request_any(w, prof, F) ==
    LET w1 == Issue([w EXCEPT !.dev.priv.req_count = MMAP_BUFFERS], "VIDIOC_REQBUFS") IN
    IF Fails(w, F, "VIDIOC_REQBUFS") THEN Ret(w1, -1)
    ELSE Ret([w1 EXCEPT !.dev.priv.req_count = prof.grant,
                        !.dev.buffer_count = prof.grant,
                        !.k = K_REQBUFS(w1.k, prof.grant),
                        !.dev.priv.buffers =
                            [i \in 1..prof.grant |-> [ptr |-> NULL, used |-> 0]]], 0)

v4l2_mmap_request(w, prof, F) ==
    LET w1 == Issue([w EXCEPT !.dev.priv.req_count = MMAP_BUFFERS], "VIDIOC_REQBUFS") IN
    IF Fails(w, F, "VIDIOC_REQBUFS") THEN Ret(w1, -1)
    ELSE LET w2 == [w1 EXCEPT !.dev.priv.req_count = prof.grant,
                              !.dev.buffer_count = prof.grant,
                              !.k = K_REQBUFS(w1.k, prof.grant)]
         IN  IF prof.grant < MIN_MMAP_BUFFERS THEN Ret(w2, -1)
             ELSE Ret([w2 EXCEPT !.dev.priv.buffers =
                          [i \in 1..prof.grant |-> [ptr |-> NULL, used |-> 0]]], 0)

v4l2_mmap_query(w, F, indx) ==
    LET w1 == Issue(w, "VIDIOC_QUERYBUF") IN
    IF FailsAt(w, F, "VIDIOC_QUERYBUF", indx)
    THEN Ret([w1 EXCEPT !.dev.priv.buffers = NoBuffers], -1)
    ELSE IF FailsAt(w, F, "mmap", indx) \/ FreeRegions(w.regions) = {}
    THEN Ret([w1 EXCEPT !.dev.priv.buffers = NoBuffers], -1)
    ELSE LET r == SetMin(FreeRegions(w.regions))
         IN  Ret([w1 EXCEPT !.regions = @ \cup {r},
                            !.dev.priv.buffers[indx + 1].ptr = r], 0)

v4l2_mmap_queue(w, F, indx) ==
    LET w1 == Issue([w EXCEPT !.dev.priv.buf_index = indx], "VIDIOC_QBUF") IN
    IF FailsAt(w, F, "VIDIOC_QBUF", indx) \/ ~K_QBUF_ok(w.k, indx) THEN Ret(w1, -1)
    ELSE Ret([w1 EXCEPT !.k = K_QBUF(w.k, indx)], 0)

\* the loop of v4l2_mmap_set over the granted buffers
RECURSIVE MmapLoop(_, _, _)
MmapLoop(w, F, indx) ==
    IF indx >= w.dev.buffer_count THEN Ret(w, 0)
    ELSE LET w1 == v4l2_mmap_query(w, F, indx) IN
         IF w1.retcd # 0 THEN w1
         ELSE LET w2 == v4l2_mmap_queue(w1, F, indx) IN
              IF w2.retcd # 0 THEN w2
              ELSE MmapLoop(w2, F, indx + 1)

\* variant of v4l2_mmap_set that signals stream-on before it maps and
\* enqueues the buffers
v4l2_mmap_set_early(w, prof, F) ==
    IF ~w.dev.priv.cap_streaming THEN Ret(w, -1)
    ELSE LET w1 == v4l2_mmap_request(w, prof, F) IN
         IF w1.retcd # 0 THEN w1
         ELSE LET w2 == Issue(w1, "VIDIOC_STREAMON") IN
              IF Fails(w, F, "VIDIOC_STREAMON") THEN Ret(w2, -1)
              ELSE MmapLoop([w2 EXCEPT !.k = K_STREAMON(w1.k)], F, 0)

\* lines 1147-1181
v4l2_mmap_set(w, prof, F) ==
    IF ~w.dev.priv.cap_streaming THEN Ret(w, -1)
    ELSE LET w1 == v4l2_mmap_request(w, prof, F) IN
         IF w1.retcd # 0 THEN w1
         ELSE LET w2 == MmapLoop(w1, F, 0) IN
              IF w2.retcd # 0 THEN w2
              ELSE LET w3 == Issue(w2, "VIDIOC_STREAMON") IN
                   IF Fails(w, F, "VIDIOC_STREAMON") THEN Ret(w3, -1)
                   ELSE Ret([w3 EXCEPT !.k = K_STREAMON(w2.k)], 0)

\* variant of v4l2_imgs_set that asks the driver for the format instead of
\* copying the handle's
v4l2_imgs_set_query(w) ==
    Ret(Issue([w EXCEPT !.cnt.imgs_width = w.dev.width,
                        !.cnt.imgs_height = w.dev.height,
                        !.cnt.imgs_motionsize = w.dev.width * w.dev.height,
                        !.cnt.conf_width = w.dev.width,
                        !.cnt.conf_height = w.dev.height], "VIDIOC_G_FMT"), 0)

v4l2_imgs_set(w) ==
    Ret([w EXCEPT !.cnt.imgs_width = w.dev.width,
                  !.cnt.imgs_height = w.dev.height,
                  !.cnt.imgs_motionsize = w.dev.width * w.dev.height,
                  !.cnt.conf_width = w.dev.width,
                  !.cnt.conf_height = w.dev.height], 0)

\* a signal interrupts the wait of VIDIOC_DQBUF once (errno EINTR)
Interrupted(F) == \E f \in F : f.name = "EINTR"

\* xioctl, lines 137-140: the loop issues an interrupted ioctl again while
\* !vid_source->finish, finish being the pointer to the consumer's flag
xioctl_retries(vid) == ~(vid.finish # NULL)

\* the VIDIOC_DQBUF of v4l2_capture through xioctl returns -1: an error of
\* the device, no buffer to wait for, or an interrupted wait that the loop
\* does not repeat
xioctl_DQBUF_fails(w, F, k1) ==
    \/ Fails(w, F, "VIDIOC_DQBUF")
    \/ ~K_DQBUF_ok(k1)
    \/ Interrupted(F) /\ ~xioctl_retries(w.dev.priv)

\* the second VIDIOC_DQBUF of a wait that the loop repeats
xioctl_again(w, F) ==
    IF Interrupted(F) /\ xioctl_retries(w.dev.priv)
    THEN Issue(w, "VIDIOC_DQBUF") ELSE w

\* lines 1279-1285: the signals v4l2_capture adds to the mask
CaptureSignals == {"SIGCHLD", "SIGALRM", "SIGUSR1", "SIGTERM", "SIGHUP"}

\* pthread_sigmask(how, set, NULL) on a thread whose blocked signals are
\* mask: the signals blocked afterwards
pthread_sigmask(how, set, mask) ==
    CASE how = "SIG_BLOCK" -> mask \cup set
      [] how = "SIG_UNBLOCK" -> mask \ set
      [] OTHER -> set

\* lines 1288-1317 of v4l2_capture, between the two calls of
\* pthread_sigmask.  F names a failing VIDIOC_QBUF or VIDIOC_DQBUF;
\* a NULL v4l2_private or buffers pointer is dereferenced (crash).
v4l2_capture_io(w, F) ==
    IF w.dev.priv = NoPrivate THEN [Ret(w, -1) EXCEPT !.crash = TRUE]
    ELSE LET vid == w.dev.priv
             requeue == vid.pframe >= 0
             w1 == IF requeue THEN Issue(w, "VIDIOC_QBUF") ELSE w
         IN  IF requeue /\ (Fails(w, F, "VIDIOC_QBUF") \/ ~K_QBUF_ok(w.k, vid.buf_index))
             THEN Ret(w1, -1)
             ELSE LET k1 == IF requeue THEN K_QBUF(w.k, vid.buf_index) ELSE w.k
                      \* memset(&vid_source->buf, 0, ...): buf.index = 0
                      w2 == xioctl_again(
                                Issue([w1 EXCEPT !.k = k1, !.dev.priv.buf_index = 0],
                                      "VIDIOC_DQBUF"), F)
                  IN  IF xioctl_DQBUF_fails(w, F, k1) THEN Ret(w2, -1)
                      ELSE IF vid.buffers = NoBuffers
                      THEN [Ret(w2, -1) EXCEPT !.crash = TRUE]
                      ELSE LET index == Head(k1.fifo)
                           IN  Ret([w2 EXCEPT !.k = K_DQBUF(k1),
                                              !.dev.priv.buf_index = index,
                                              !.dev.priv.pframe = index,
                                              !.dev.priv.buffers[index + 1].used = 1], 0)

\* v4l2_capture(curdev): line 1286 saves the blocked signals in old and
\* blocks CaptureSignals; every return (lines 1292, 1308, 1315) calls
\* pthread_sigmask(SIG_UNBLOCK, &old, NULL)
v4l2_capture(w, F) ==
    [v4l2_capture_io([w EXCEPT !.cnt.blocked =
                         pthread_sigmask("SIG_BLOCK", CaptureSignals, @)], F)
        EXCEPT !.cnt.blocked =
                  pthread_sigmask("SIG_UNBLOCK", w.cnt.blocked,
                      pthread_sigmask("SIG_BLOCK", CaptureSignals, w.cnt.blocked))]

\* the formats v4l2_pix_change converts without a decoder that can fail
PixDirect ==
    {palette_v4l2id(i) : i \in {0, 1, 2, 3, 4, 5, 10, 14, 15, 16, 17, 18, 19, 20}}
\* the formats decoded by vid_mjpegtoyuv420p, which returns its own result
PixJpeg == {palette_v4l2id(i) : i \in {7, 8, 9}}

\* v4l2_pix_change: decodefail is the result of the JPEG decoder
v4l2_pix_change(w, decodefail) ==
    IF w.dev.priv = NoPrivate \/ w.dev.priv.buffers = NoBuffers
    THEN [Ret(w, -1) EXCEPT !.crash = TRUE]
    ELSE IF w.dev.pixfmt_src \in PixDirect THEN Ret(w, 0)
    ELSE IF w.dev.pixfmt_src \in PixJpeg THEN Ret(w, IF decodefail THEN -1 ELSE 0)
    ELSE Ret(w, -1)

\* ------------------------------------------------------------------------
\* Device lifecycle helpers
\* ------------------------------------------------------------------------
\* vid_parms_parse(cnt) (video_common.c): when the user parameters were
\* updated, rebuild params_array from the configuration and take the
\* input / norm / frequency selection from it
vid_parms_parse(c) ==
    IF c.vdev # NoVdev /\ c.vdev.update_params
    THEN [c EXCEPT !.vdev = [alloc |-> TRUE, params_array |-> c.conf_params,
                             update_params |-> FALSE],
                   !.param_input = c.conf_input,
                   !.param_norm = c.conf_norm,
                   !.param_freq = c.conf_freq]
    ELSE c

v4l2_vdev_init(c) ==
    [c EXCEPT !.vdev = [alloc |-> TRUE, params_array |-> <<>>, update_params |-> TRUE]]

v4l2_vdev_free(c) == [c EXCEPT !.vdev = NoVdev]


\* a struct video_dev that was never allocated
NoDev ==
    [live |-> FALSE, video_device |-> "", fd_device |-> -1, next |-> NULL,
     usage_count |-> 0, owner |-> NoOwner, frames |-> 0, input |-> 0, norm |-> 0,
     frequency |-> 0, width |-> 0, height |-> 0, pixfmt_src |-> 0,
     buffer_count |-> 0, devctrl |-> <<>>, starting |-> FALSE,
     device_type |-> "", priv |-> NoPrivate, mutex |-> NULL]

\* &cnt->finish: the address of the shutdown flag of context c, never NULL
AddrOfFinish(c) == c.threadnr

\* v4l2_device_init(cnt, curdev), after curdev->starting = TRUE
v4l2_device_init(c, d) ==
    [d EXCEPT !.live = TRUE, !.starting = TRUE, !.mutex = NULL,
              !.usage_count = 1, !.input = c.param_input, !.norm = c.param_norm,
              !.frequency = c.param_freq, !.height = c.conf_height,
              !.width = c.conf_width, !.devctrl = <<>>, !.owner = NoOwner,
              !.buffer_count = 0,
              !.priv = [alloc |-> TRUE, fd_device |-> d.fd_device, pframe |-> -1, buf_index |-> 0,
                        buffers |-> NoBuffers, req_count |-> 0, cap_streaming |-> FALSE,
                        dst_fmt |-> NoFmt, finish |-> AddrOfFinish(c)]]

\* v4l2_device_open: fd is the descriptor open() returns, -1 when it fails
v4l2_device_open(w, fd) ==
    LET w1 == [w EXCEPT !.dev.video_device = w.cnt.conf_video_device,
                        !.dev.fd_device = -1]
    IN  IF fd > 0
        THEN Ret([w1 EXCEPT !.dev.fd_device = fd, !.dev.priv.fd_device = fd,
                            !.k = KOpened(w.cnt.conf_video_device)], 0)
        ELSE Ret(w1, -1)

v4l2_device_capability(w, prof, F) ==
    LET w1 == Issue(w, "VIDIOC_QUERYCAP") IN
    IF Fails(w, F, "VIDIOC_QUERYCAP") THEN Ret(w1, -1)
    ELSE LET w2 == [w1 EXCEPT !.dev.priv.cap_streaming = prof.cap_streaming]
         IN  IF ~prof.cap_capture THEN Ret(w2, -1) ELSE Ret(w2, 0)

\* v4l2_device_close: stream-off, its result ignored (F names a failing
\* VIDIOC_STREAMOFF), then close the descriptor
v4l2_device_close(w, F) ==
    IF w.dev.priv = NoPrivate THEN [w EXCEPT !.crash = TRUE]
    ELSE LET w1 == Issue(w, "VIDIOC_STREAMOFF")
             w2 == IF w.k.open /\ ~Fails(w, F, "VIDIOC_STREAMOFF")
                   THEN [w1 EXCEPT !.k = K_STREAMOFF(w.k)] ELSE w1
         IN  IF w.dev.priv.fd_device # -1
             THEN [Issue(w2, "close") EXCEPT !.k = KClosed, !.dev.priv.fd_device = -1]
             ELSE w2

\* the address ranges munmap()ed by the loop of v4l2_device_cleanup
BufferPtrs(vid) ==
    {vid.buffers[i].ptr : i \in {j \in 1..Len(vid.buffers) : j <= vid.req_count}}

\* variant of v4l2_device_cleanup that frees the buffer array without
\* unmapping the buffers
v4l2_device_cleanup_nounmap(w) ==
    IF w.dev.priv = NoPrivate THEN [w EXCEPT !.crash = TRUE]
    ELSE [w EXCEPT !.dev.priv = NoPrivate, !.dev.devctrl = <<>>,
                   !.ctrl_arrays = IF Len(w.dev.devctrl) # 0 THEN @ - 1 ELSE @]

\* v4l2_device_cleanup: unmap every buffer, free the buffer array, the
\* private state and the control list
v4l2_device_cleanup(w) ==
    IF w.dev.priv = NoPrivate THEN [w EXCEPT !.crash = TRUE]
    ELSE LET w1 == IF w.dev.priv.buffers # NoBuffers
                   THEN [Issue(w, "munmap") EXCEPT
                            !.regions = @ \ BufferPtrs(w.dev.priv)]
                   ELSE w
         IN  [w1 EXCEPT !.dev.priv = NoPrivate, !.dev.devctrl = <<>>,
                        !.ctrl_arrays = IF Len(w.dev.devctrl) # 0 THEN @ - 1 ELSE @]

\* ------------------------------------------------------------------------
\* State
\* ------------------------------------------------------------------------
VARIABLES
    video_devices,  \* head of the linked list of struct video_dev (a slot or NULL)
    dev,            \* the memory of each struct video_dev, by slot (address)
    v4l2_mutex,     \* holder of the process-wide registry mutex, or NULL
    kfd,            \* the kernel's state of each file descriptor
    hwsel,          \* per device node: input / standard / frequency switched to
    hwctl,          \* per device node: the control values the hardware holds
    regions,        \* the address ranges currently mmap()ed
    ctrl_arrays,    \* the number of devctrl_array allocations not yet freed
    prof,           \* the description of the capture hardware
    cnt,            \* struct context of each consumer thread
    thr,            \* each thread's position, locals and last result
    lastgrant,      \* per slot: the thread that acquired the device last
    nfaults,        \* the number of hardware errors injected so far
    crashed         \* the process died on a NULL dereference or SIGFPE

vars == <<video_devices, dev, v4l2_mutex, kfd, hwsel, hwctl, regions,
          ctrl_arrays, prof,
          cnt, thr, lastgrant, nfaults, crashed>>

FdOf(d) == IF d.priv # NoPrivate THEN d.priv.fd_device ELSE -1
KOf(fd) == IF fd \in FdIds THEN kfd[fd] ELSE KClosed
PathOf(fd, d) ==
    IF fd \in FdIds /\ kfd[fd].open THEN kfd[fd].path
    ELSE IF d.video_device \in Paths THEN d.video_device
    ELSE CHOOSE p \in Paths : TRUE

\* what a function called by thread t on the device in slot s can touch
World(c, d, k, path) ==
    [cnt |-> c, dev |-> d, k |-> k, sel |-> hwsel[path], ctl |-> hwctl[path],
     regions |-> regions, ctrl_arrays |-> ctrl_arrays, calls |-> <<>>,
     warns |-> 0, retcd |-> 0, crash |-> FALSE, newvals |-> FALSE, rolled |-> {}]

WorldOf(t, s) ==
    World(cnt[t], dev[s], KOf(FdOf(dev[s])), PathOf(FdOf(dev[s]), dev[s]))

\* write the world back after the call
Commit(t, s, fd, path, w) ==
    /\ cnt' = [cnt EXCEPT ![t] = w.cnt]
    /\ dev' = [dev EXCEPT ![s] = w.dev]
    /\ kfd' = IF fd \in FdIds THEN [kfd EXCEPT ![fd] = w.k] ELSE kfd
    /\ hwsel' = [hwsel EXCEPT ![path] = w.sel]
    /\ hwctl' = [hwctl EXCEPT ![path] = w.ctl]
    /\ regions' = w.regions
    /\ ctrl_arrays' = w.ctrl_arrays
    /\ crashed' = (crashed \/ w.crash)

\* the descriptors v4l2_ctrls_set may try to set
CtrlIndexes(d) == {i \in 1..Len(d.devctrl) : ~d.devctrl[i].ctrl_menuitem}

ParmsSetW(w) ==
    LET r == v4l2_parms_set(w.cnt, w.dev)
    IN  [w EXCEPT !.cnt = r.cnt, !.dev = r.dev, !.warns = @ + r.warns,
                  !.retcd = r.retcd]

AutobrightW(w) ==
    LET r == v4l2_autobright(w.cnt, w.dev, w.cnt.conf_auto_brightness)
    IN  [w EXCEPT !.dev = r.dev, !.retcd = r.retcd, !.crash = @ \/ r.sigfpe]

CtrlsSetW(w, rej1, rej2) ==
    LET all == CtrlIndexes(w.dev)
        r == v4l2_ctrls_set(w.cnt, w.dev, w.ctl,
                            IF w.k.open THEN rej1 ELSE all,
                            IF w.k.open THEN rej2 ELSE all)
    IN  [w EXCEPT !.cnt = r.cnt, !.dev = r.dev, !.ctl = r.hw,
                  !.calls = @ \o r.calls, !.rolled = r.rolled, !.retcd = r.retcd]

\* lines 1378-1392 and 1411-1416: the calls of v4l2_device_select in order
SelectStage(w, P, F, rej1, rej2, stage) ==
    CASE stage = 1 -> v4l2_input_select(w, P, F)
      [] stage = 2 -> v4l2_norm_select(w, P, F)
      [] stage = 3 -> v4l2_frequency_select(w, P, F)
      [] stage = 4 -> ParmsSetW(w)
      [] stage = 5 -> AutobrightW(w)
      [] stage = 6 -> CtrlsSetW(w, rej1, rej2)

RECURSIVE SelectChain(_, _, _, _, _, _)
SelectChain(w, P, F, rej1, rej2, stage) ==
    IF stage > 6 \/ w.retcd # 0 THEN w
    ELSE SelectChain(SelectStage(w, P, F, rej1, rej2, stage), P, F, rej1, rej2,
                     stage + 1)

\* lines 1369-1375: newvals
SelectionChanged(w) ==
    \/ w.cnt.param_input # w.dev.input
    \/ w.cnt.param_norm # w.dev.norm
    \/ w.cnt.param_freq # w.dev.frequency

\* lines 1377-1421: with new values the whole selection, otherwise the
\* picture controls only
SelectParsed(w, P, F, rej1, rej2) ==
    IF SelectionChanged(w)
    THEN [SelectChain(w, P, F, rej1, rej2, 1) EXCEPT !.newvals = TRUE]
    ELSE SelectChain(w, P, F, rej1, rej2, 4)

\* v4l2_device_select(cnt, curdev) up to the drain loop; newvals tells the
\* caller whether the drain and skip loops run
v4l2_device_select(w, P, F, rej1, rej2) ==
    IF w.dev.priv = NoPrivate THEN w
    ELSE SelectParsed([w EXCEPT !.cnt = vid_parms_parse(w.cnt)], P, F, rej1, rej2)

\* ------------------------------------------------------------------------
\* Registry traversal
\* ------------------------------------------------------------------------
\* the while loop of v4l2_start from node s: the node of the path, NULL, or
\* Hang when the list is cyclic (n bounds the walk)
Hang == -2
RECURSIVE FindByPath(_, _, _)
FindByPath(path, s, n) ==
    IF s = NULL THEN NULL
    ELSE IF n = 0 THEN Hang
    ELSE IF mystreq(path, dev[s].video_device) THEN s
    ELSE FindByPath(path, dev[s].next, n - 1)

\* the while loop of v4l2_cleanup / v4l2_next from node s: the node whose
\* fd_device is the handle, and the node before it
RECURSIVE FindByFd(_, _, _, _)
FindByFd(fd, s, prev, n) ==
    IF s = NULL THEN [dev |-> NULL, prev |-> prev]
    ELSE IF n = 0 THEN [dev |-> Hang, prev |-> prev]
    ELSE IF dev[s].fd_device = fd THEN [dev |-> s, prev |-> prev]
    ELSE FindByFd(fd, dev[s].next, s, n - 1)

WalkBound == Cardinality(Slots) + 1

\* ------------------------------------------------------------------------
\* Hardware and configurations
\* ------------------------------------------------------------------------
Chars(n) == itoa(n)

BrightnessCtrl ==
    [id |-> V4L2_CID_BRIGHTNESS, type |-> V4L2_CTRL_TYPE_INTEGER, minimum |-> 0,
     maximum |-> 10, default_value |-> 5, name |-> "Brightness", menu |-> <<>>]
\* a brightness control wide enough for the hysteresis window around a low
\* target to end inside its range
WideBrightnessCtrl ==
    [id |-> V4L2_CID_BRIGHTNESS, type |-> V4L2_CTRL_TYPE_INTEGER, minimum |-> 0,
     maximum |-> 24, default_value |-> 12, name |-> "Brightness", menu |-> <<>>]
\* the brightness control of a driver with range r[1]..r[2] and default r[3]
RangeCtrl(r) ==
    [id |-> V4L2_CID_BRIGHTNESS, type |-> V4L2_CTRL_TYPE_INTEGER, minimum |-> r[1],
     maximum |-> r[2], default_value |-> r[3], name |-> "Brightness", menu |-> <<>>]
WhiteBalanceCtrl ==
    [id |-> V4L2_CID_AUTO_WHITE_BALANCE, type |-> V4L2_CTRL_TYPE_BOOLEAN,
     minimum |-> 0, maximum |-> 1, default_value |-> 1,
     name |-> "White Balance, Automatic", menu |-> <<>>]
PowerLineCtrl ==
    [id |-> V4L2_CID_POWER_LINE_FREQUENCY, type |-> V4L2_CTRL_TYPE_MENU,
     minimum |-> 0, maximum |-> 2, default_value |-> 1,
     name |-> "Power Line Frequency",
     menu |-> <<[index |-> 0, name |-> "Disabled"], [index |-> 1, name |-> "50 Hz"]>>]

\* a camera with two inputs that grants the buffers it is asked for up to
\* grant
Camera(grant, ctrls) ==
    [cap_capture |-> TRUE, cap_streaming |-> TRUE, ninputs |-> 2,
     input_type |-> "camera", has_std |-> FALSE, fmts |-> <<V4L2_PIX_FMT_YUYV>>,
     fixed_w |-> 0, fixed_h |-> 0, bpl_mul |-> 2, bpl_pad |-> 0,
     ctrls |-> ctrls, grant |-> grant, rejects |-> {},
     accepts |-> {V4L2_PIX_FMT_YUYV}, signals |-> FALSE, framesizes |-> <<>>]

\* a camera that advertises fmts (VIDIOC_ENUM_FMT) and accepts the formats
\* accepts for the size asked for (VIDIOC_TRY_FMT)
FormatCamera(fmts, accepts) ==
    [Camera(2, <<BrightnessCtrl>>) EXCEPT !.fmts = fmts, !.accepts = accepts]

\* a camera whose driver may refuse to write the descriptors rejects
CameraRejecting(grant, ctrls, rejects) ==
    [Camera(grant, ctrls) EXCEPT !.rejects = rejects]

Param(name, value) == [param_name |-> name, param_value |-> Chars(value)]

\* struct context of thread t before its first v4l2_start
Context(t, path, input, frames, skip, params) ==
    [video_dev |-> -1, threadnr |-> t, conf_video_device |-> path,
     conf_width |-> 8, conf_height |-> 8,
     conf_roundrobin_frames |-> frames, conf_roundrobin_skip |-> skip,
     conf_auto_brightness |-> 0, conf_params |-> params,
     conf_input |-> input, conf_norm |-> 0, conf_freq |-> 0,
     param_input |-> 0, param_norm |-> 0, param_freq |-> 0,
     vdev |-> NoVdev, imgs_width |-> 0, imgs_height |-> 0, imgs_motionsize |-> 0,
     image |-> <<128>>, scenes |-> {<<128>>}, finish |-> FALSE,
     blocked |-> {}]

\* a context with auto_brightness method whose frames show one of scenes
BrightContext(t, params, method, scenes) ==
    [Context(t, "/dev/video0", 0, 1, 1, params) EXCEPT
        !.conf_auto_brightness = method, !.scenes = scenes]

\* the control values a device node holds when the process starts
HwDefaults(P) ==
    [id \in {P.ctrls[i].id : i \in 1..Len(P.ctrls)} |->
        (P.ctrls[CHOOSE i \in 1..Len(P.ctrls) : P.ctrls[i].id = id]).default_value]

Idle(t) ==
    [pc |-> "idle", dev |-> NULL, prev |-> NULL, tmp |-> 0,
     op |-> "none", retcd |-> 0, calls |-> <<>>, got |-> 0, disc |-> 0,
     newvals |-> FALSE, warns |-> 0, faults |-> {}, args |-> <<>>,
     fourcc |-> <<>>]

\* thread t returns retcd from operation op
Done(t, op, retcd) ==
    [thr[t] EXCEPT !.pc = "idle", !.op = op, !.retcd = retcd, !.dev = NULL,
                   !.prev = NULL, !.tmp = 0, !.faults = {}]

\* the state after v4l2_mutex_init, with hardware P and contexts C; faults
\* is the number of hardware errors already spent
InitWith(P, C, faults) ==
    /\ video_devices = NULL
    /\ dev = [s \in Slots |-> NoDev]
    /\ v4l2_mutex = NULL
    /\ kfd = [f \in FdIds |-> KClosed]
    /\ hwsel = [p \in Paths |-> [input |-> 0, std |-> "PAL", freq |-> 0]]
    /\ hwctl = [p \in Paths |-> HwDefaults(P)]
    /\ regions = {}
    /\ ctrl_arrays = 0
    /\ prof = P
    /\ cnt = C
    /\ thr = [t \in Threads |-> Idle(t)]
    /\ lastgrant = [s \in Slots |-> 0]
    /\ nfaults = faults
    /\ crashed = FALSE

\* ------------------------------------------------------------------------
\* Injected hardware errors
\* ------------------------------------------------------------------------
MaxFaults == 1

StartFaults ==
    {Fault(n, 0) : n \in {"open", "VIDIOC_QUERYCAP", "VIDIOC_ENUMINPUT",
                          "VIDIOC_S_INPUT", "VIDIOC_TRY_FMT", "VIDIOC_S_FMT",
                          "VIDIOC_REQBUFS", "VIDIOC_STREAMON", "VIDIOC_G_CTRL"}}
    \cup {Fault(n, i) : n \in {"VIDIOC_QUERYBUF", "mmap", "VIDIOC_QBUF"},
                        i \in 0..(MIN_MMAP_BUFFERS - 1)}
\* at: the number of the capture of the call that fails, 0 being the first
NextFaults == {Fault(n, 0) : n \in {"VIDIOC_QBUF", "VIDIOC_DQBUF"}}

\* the stream-off of v4l2_device_close fails
CloseFaults == {Fault("VIDIOC_STREAMOFF", 0)}

\* the error sets a step may meet: none, or one error while the budget lasts
FaultSets(kinds) ==
    {{}} \cup (IF nfaults < MaxFaults THEN {{f} : f \in kinds} ELSE {})

\* a VIDIOC_S_CTRL on descriptor at that the driver refuses: in the first
\* pass of v4l2_ctrls_set only, or in the retry as well
CtrlFaults ==
    {Fault(n, i) : n \in {"VIDIOC_S_CTRL", "VIDIOC_S_CTRL retry"}, i \in prof.rejects}

\* a signal that interrupts the wait of the first capture of a v4l2_next,
\* on a system that delivers signals to the capture thread
IntrFaults == IF prof.signals THEN {Fault("EINTR", 0)} ELSE {}

\* the descriptors whose VIDIOC_S_CTRL is rejected in pass name
Rej(F, name) == {f.at : f \in {g \in F : g.name = name}}
\* rejected in the first pass / in the second pass
Rej1(F) == Rej(F, "VIDIOC_S_CTRL") \cup Rej(F, "VIDIOC_S_CTRL retry")
Rej2(F) == Rej(F, "VIDIOC_S_CTRL retry")

\* ------------------------------------------------------------------------
\* v4l2_start
\* ------------------------------------------------------------------------
FreeSlots == {s \in Slots : ~dev[s].live}
FreeFds == {f \in FdIds : ~kfd[f].open}
MaxCtrlArrays == 3
\* the largest usage_count a device is driven to
MaxUsage == 3

\* lines 1650-1697 of v4l2_start for a device that is not in the list: w is
\* the world with the zeroed struct video_dev, fd what open() returns
StartStage(w, P, F, fd, stage) ==
    CASE stage = 1 -> v4l2_device_open(w, fd)
      [] stage = 2 -> v4l2_device_capability(w, P, F)
      [] stage = 3 -> v4l2_input_select(w, P, F)
      [] stage = 4 -> v4l2_norm_select(w, P, F)
      [] stage = 5 -> v4l2_frequency_select(w, P, F)
      [] stage = 6 -> v4l2_pixfmt_select(w, P, F)
      [] stage = 7 -> v4l2_fps_set(w)
      [] stage = 8 -> v4l2_ctrls_list(w, P, F)
      [] stage = 9 -> ParmsSetW(w)
      [] stage = 10 -> CtrlsSetW(w, Rej1(F), Rej2(F))
      [] stage = 11 -> v4l2_mmap_set(w, P, F)
      [] stage = 12 -> v4l2_imgs_set(w)

\* "if (retcd == 0) retcd = ..." : the stages from `stage` on, each run only
\* while retcd is 0
RECURSIVE StartChain(_, _, _, _, _)
StartChain(w, P, F, fd, stage) ==
    IF stage > 12 \/ w.retcd # 0 THEN w
    ELSE StartChain(StartStage(w, P, F, fd, stage), P, F, fd, stage + 1)

\* lines 1650-1658: v4l2_vdev_init, vid_parms_parse, v4l2_device_init
StartInit(w, c1) == [w EXCEPT !.cnt = c1, !.dev = v4l2_device_init(c1, w.dev)]

StartSteps(w, P, F, fd) ==
    StartChain(StartInit(w, vid_parms_parse(v4l2_vdev_init(w.cnt))), P, F, fd, 1)

\* thread t is at position pc of its call; a process that crashed runs no
\* thread
At(t, pc) == ~crashed /\ thr[t].pc = pc

\* lines 1698-1713: the failure path
StartFailed(w) ==
    [w EXCEPT !.dev = NoDev,
              !.cnt = [v4l2_vdev_free(w.cnt) EXCEPT !.video_dev = w.retcd],
              !.k = IF w.dev.fd_device # -1 THEN KClosed ELSE w.k]

\* lines 1715-1723: insert at the head and return the descriptor
StartInserted(w) ==
    [w EXCEPT !.dev.starting = FALSE, !.dev.next = video_devices,
              !.cnt.video_dev = w.dev.fd_device, !.retcd = w.dev.fd_device]

\* lines 1698-1723: the two ways v4l2_start ends
StartReturn(w) == IF w.retcd < 0 THEN StartFailed(w) ELSE StartInserted(w)

\* variant of StartHead that links the new entry whatever the result
StartHead_always(w, s) == s

\* lines 1698, 1717-1719: the head of the list after the open; a failed
\* open returns before the insertion
StartHead(w, s) == IF w.retcd < 0 THEN video_devices ELSE s

\* v4l2_start(cnt) when no device of the list has the configured path
\* (lines 1628-1652): the lock is taken, the walk finds nothing, the entry is
\* allocated
v4l2_start_alloc(t) ==
    /\ At(t, "idle") /\ cnt[t].video_dev < 0 /\ v4l2_mutex = NULL
    /\ ctrl_arrays < MaxCtrlArrays
    /\ FindByPath(cnt[t].conf_video_device, video_devices, WalkBound) = NULL
    /\ FreeSlots # {}
    /\ thr' = [thr EXCEPT ![t] = [Idle(t) EXCEPT !.pc = "s_new"]]
    /\ v4l2_mutex' = t
    /\ UNCHANGED <<video_devices, dev, kfd, hwsel, hwctl, regions, ctrl_arrays,
                   prof, cnt, lastgrant, nfaults, crashed>>

\* lines 1654-1723: the negotiation of the new device, the insertion or the
\* failure path, and the unlock that ends both
v4l2_start_new(t) ==
    /\ At(t, "s_new")
    /\ \E F \in FaultSets(StartFaults \cup CtrlFaults) :
         LET s == SetMin(FreeSlots)
             path == cnt[t].conf_video_device
             fd == IF Fault("open", 0) \in F \/ FreeFds = {} THEN -1
                   ELSE SetMin(FreeFds)
         IN  \E w \in {StartSteps(World(cnt[t], NoDev, KClosed, path), prof, F, fd)} :
             \E r \in {StartReturn(w)} :
             /\ Commit(t, s, fd, path, r)
             /\ video_devices' = StartHead(w, s)
             /\ thr' = [thr EXCEPT ![t] = [Idle(t) EXCEPT !.op = "start",
                            !.retcd = r.retcd, !.calls = r.calls, !.warns = r.warns,
                            !.faults = F]]
             /\ lastgrant' = [lastgrant EXCEPT ![s] = 0]
             /\ nfaults' = nfaults + Cardinality(F)
             /\ v4l2_mutex' = NULL
             /\ UNCHANGED prof

\* v4l2_start(cnt) when a device of the list has the configured path (lines
\* 1633-1641): the lock is taken, the sizes are copied, usage_count is read
v4l2_start_share(t) ==
    /\ At(t, "idle") /\ cnt[t].video_dev < 0 /\ v4l2_mutex = NULL
    /\ LET s == FindByPath(cnt[t].conf_video_device, video_devices, WalkBound)
       IN  /\ s \in Slots
           /\ dev[s].usage_count < MaxUsage
           /\ LET c1 == vid_parms_parse(v4l2_vdev_init(cnt[t]))
                  w == v4l2_imgs_set(World(c1, dev[s], KClosed, cnt[t].conf_video_device))
              IN  /\ cnt' = [cnt EXCEPT ![t] = w.cnt]
                  /\ thr' = [thr EXCEPT ![t] =
                               [Idle(t) EXCEPT !.pc = "share", !.dev = s,
                                               !.calls = w.calls,
                                               !.tmp = dev[s].usage_count]]
    /\ v4l2_mutex' = t
    /\ UNCHANGED <<video_devices, dev, kfd, hwsel, hwctl, regions, ctrl_arrays,
                   prof, lastgrant, nfaults, crashed>>

\* lines 1641-1645: usage_count is written, the descriptor returned
v4l2_start_share_done(t) ==
    /\ At(t, "share")
    /\ LET s == thr[t].dev IN
       /\ dev' = [dev EXCEPT ![s].usage_count = thr[t].tmp + 1]
       /\ cnt' = [cnt EXCEPT ![t].video_dev = dev[s].fd_device]
       /\ thr' = [thr EXCEPT ![t] = Done(t, "share", dev[s].fd_device)]
    /\ v4l2_mutex' = NULL
    /\ UNCHANGED <<video_devices, kfd, hwsel, hwctl, regions, ctrl_arrays, prof,
                   lastgrant, nfaults, crashed>>

\* ------------------------------------------------------------------------
\* v4l2_cleanup
\* ------------------------------------------------------------------------

\* line 1735: the head of the list is read before the lock is taken
v4l2_cleanup_begin(t) ==
    /\ At(t, "idle") /\ cnt[t].video_dev >= 0
    /\ thr' = [thr EXCEPT ![t] = [@ EXCEPT !.pc = "c_lock", !.dev = video_devices,
                                          !.prev = NULL, !.calls = <<>>,
                                          !.disc = 0, !.warns = 0, !.newvals = FALSE]]
    /\ UNCHANGED <<video_devices, dev, v4l2_mutex, kfd, hwsel, hwctl, regions,
                   ctrl_arrays, prof, cnt, lastgrant, nfaults, crashed>>

\* lines 1739-1757: the lookup under the lock, the handle is forgotten
v4l2_cleanup_lookup(t) ==
    /\ At(t, "c_lock") /\ v4l2_mutex = NULL
    /\ LET r == FindByFd(cnt[t].video_dev, thr[t].dev, NULL, WalkBound) IN
       /\ r.dev # Hang
       /\ thr' = [thr EXCEPT ![t] =
                     IF r.dev = NULL
                     THEN [Done(t, "cleanup", 0) EXCEPT !.dev = NULL, !.prev = NULL]
                     ELSE [@ EXCEPT !.pc = "c_load", !.dev = r.dev, !.prev = r.prev]]
    /\ cnt' = [cnt EXCEPT ![t] = [v4l2_vdev_free(@) EXCEPT !.video_dev = -1]]
    /\ UNCHANGED <<video_devices, dev, v4l2_mutex, kfd, hwsel, hwctl, regions,
                   ctrl_arrays, prof, lastgrant, nfaults, crashed>>

\* line 1759, the read of --dev->usage_count
v4l2_cleanup_load(t) ==
    /\ At(t, "c_load")
    /\ dev[thr[t].dev].usage_count > -MaxUsage
    /\ thr' = [thr EXCEPT ![t].pc = "c_store", ![t].tmp = dev[thr[t].dev].usage_count]
    /\ UNCHANGED <<video_devices, dev, v4l2_mutex, kfd, hwsel, hwctl, regions,
                   ctrl_arrays, prof, cnt, lastgrant, nfaults, crashed>>

\* line 1759, the write and the test; lines 1779-1792 when consumers remain
v4l2_cleanup_store(t) ==
    /\ At(t, "c_store")
    /\ LET s == thr[t].dev
           count == thr[t].tmp - 1
           owned == dev[s].owner = cnt[t].threadnr
       IN  IF count = 0
           THEN /\ dev' = [dev EXCEPT ![s].usage_count = count]
                /\ thr' = [thr EXCEPT ![t].pc = "c_close"]
           ELSE /\ dev' = [dev EXCEPT ![s] =
                             IF owned
                             THEN [@ EXCEPT !.usage_count = count, !.frames = 0,
                                            !.owner = NoOwner, !.mutex = NULL]
                             ELSE [@ EXCEPT !.usage_count = count]]
                /\ thr' = [thr EXCEPT ![t] = Done(t, "cleanup", 0)]
    /\ UNCHANGED <<video_devices, v4l2_mutex, kfd, hwsel, hwctl, regions,
                   ctrl_arrays, prof, cnt, lastgrant, nfaults, crashed>>

\* line 1763
v4l2_cleanup_close(t) ==
    /\ At(t, "c_close")
    /\ \E F \in FaultSets(CloseFaults) :
         LET s == thr[t].dev
             fd == FdOf(dev[s])
             w == v4l2_device_close(WorldOf(t, s), F)
         IN  /\ Commit(t, s, fd, PathOf(fd, dev[s]), w)
             /\ thr' = [thr EXCEPT ![t].pc = "c_unmap", ![t].calls = @ \o w.calls,
                                   ![t].faults = F]
             /\ nfaults' = nfaults + Cardinality(F)
    /\ UNCHANGED <<video_devices, v4l2_mutex, prof, lastgrant>>

\* lines 1764-1766
v4l2_cleanup_unmap(t) ==
    /\ At(t, "c_unmap")
    /\ LET s == thr[t].dev
           fd == FdOf(dev[s])
           w == v4l2_device_cleanup(WorldOf(t, s))
       IN  /\ Commit(t, s, fd, PathOf(fd, dev[s]), [w EXCEPT !.dev.fd_device = -1])
           /\ thr' = [thr EXCEPT ![t].pc = "c_unlink", ![t].calls = @ \o w.calls]
    /\ UNCHANGED <<video_devices, v4l2_mutex, prof, lastgrant, nfaults>>

\* lines 1768-1777: unlink with the predecessor found by the lookup, free
v4l2_cleanup_unlink(t) ==
    /\ At(t, "c_unlink")
    /\ LET s == thr[t].dev
           prev == thr[t].prev
       IN  /\ video_devices' = IF prev = NULL THEN dev[s].next ELSE video_devices
           /\ dev' = [x \in Slots |->
                        IF x = s THEN [dev[s] EXCEPT !.live = FALSE, !.mutex = NULL]
                        ELSE IF x = prev THEN [dev[x] EXCEPT !.next = dev[s].next]
                        ELSE dev[x]]
    /\ thr' = [thr EXCEPT ![t] = Done(t, "cleanup", 0)]
    /\ UNCHANGED <<v4l2_mutex, kfd, hwsel, hwctl, regions, ctrl_arrays, prof,
                   cnt, lastgrant, nfaults, crashed>>

\* ------------------------------------------------------------------------
\* v4l2_next
\* ------------------------------------------------------------------------
\* lines 1807-1819: the lookup under the lock
v4l2_next_lookup(t) ==
    /\ At(t, "idle") /\ cnt[t].video_dev >= 0 /\ v4l2_mutex = NULL
    /\ LET r == FindByFd(cnt[t].video_dev, video_devices, NULL, WalkBound) IN
       /\ r.dev # Hang
       /\ thr' = [thr EXCEPT ![t] =
                     IF r.dev = NULL
                     THEN [Done(t, "next", -1) EXCEPT !.calls = <<>>, !.disc = 0, !.warns = 0,
                                                !.newvals = FALSE]
                     ELSE [@ EXCEPT !.pc = "n_own", !.dev = r.dev, !.calls = <<>>,
                                    !.disc = 0, !.warns = 0, !.newvals = FALSE]]
    /\ UNCHANGED <<video_devices, dev, v4l2_mutex, kfd, hwsel, hwctl, regions,
                   ctrl_arrays, prof, cnt, lastgrant, nfaults, crashed>>

\* lines 1821-1825: a thread that is not the owner waits for the device
\* mutex, becomes the owner and gets its quota
v4l2_next_acquire(t) ==
    /\ At(t, "n_own")
    /\ LET s == thr[t].dev IN
       IF dev[s].owner # cnt[t].threadnr
       THEN /\ dev[s].mutex = NULL
            /\ dev' = [dev EXCEPT ![s].mutex = t, ![s].owner = cnt[t].threadnr,
                                  ![s].frames = cnt[t].conf_roundrobin_frames]
            /\ thr' = [thr EXCEPT ![t].pc = "n_frame", ![t].got = 0]
            /\ lastgrant' = [lastgrant EXCEPT ![s] = t]
       ELSE /\ thr' = [thr EXCEPT ![t].pc = "n_frame"]
            /\ UNCHANGED <<dev, lastgrant>>
    /\ UNCHANGED <<video_devices, v4l2_mutex, kfd, hwsel, hwctl, regions,
                   ctrl_arrays, prof, cnt, nfaults, crashed>>

\* the errors of F that hit capture number n of a call, as errors of that
\* capture
FaultsAt(F, n) == {Fault(f.name, 0) : f \in {g \in F : g.at = n}}

\* a loop of v4l2_device_select: v4l2_capture for indx = from .. below - 1,
\* its result ignored; n is the number of captures made so far
RECURSIVE CaptureLoop(_, _, _, _, _)
CaptureLoop(w, F, indx, below, n) ==
    IF indx >= below THEN [w |-> w, n |-> n]
    ELSE CaptureLoop([v4l2_capture(w, FaultsAt(F, n)) EXCEPT !.retcd = w.retcd],
                     F, indx + 1, below, n + 1)

\* lines 1399-1407: the drain loop, then the skip loop; disc counts the
\* frames discarded
SelectLoops(w, F) ==
    IF ~w.newvals THEN [w |-> w, n |-> 0]
    ELSE LET drain == CaptureLoop(w, F, 0, w.dev.buffer_count, 0)
         IN  CaptureLoop(drain.w, F, 1, drain.w.cnt.conf_roundrobin_skip, drain.n)

\* variant of CountDown that releases the device one frame late
CountDown_late(d) ==
    IF d.frames - 1 < 0
    THEN [d EXCEPT !.owner = NoOwner, !.frames = 0, !.mutex = NULL]
    ELSE [d EXCEPT !.frames = d.frames - 1]

\* lines 1835-1839: the quota is counted down, at zero the device is released
CountDown(d) ==
    IF d.frames - 1 <= 0
    THEN [d EXCEPT !.owner = NoOwner, !.frames = 0, !.mutex = NULL]
    ELSE [d EXCEPT !.frames = d.frames - 1]

\* lines 1831-1833: the conversion, when the capture succeeded
ConvertIfOk(w) == IF w.retcd = 0 THEN v4l2_pix_change(w, FALSE) ELSE w

CountDownW(w) == [w EXCEPT !.dev = CountDown(w.dev)]

\* variant of NextDeliver that counts delivered frames only
NextDeliver_delivered(sel, F) ==
    LET w == ConvertIfOk(v4l2_capture([sel.w EXCEPT !.retcd = 0], FaultsAt(F, sel.n)))
    IN  IF w.retcd = 0 THEN CountDownW(w) ELSE w

\* lines 1829-1839: the capture of the frame to deliver, the conversion,
\* the count-down
NextDeliver(sel, F) ==
    CountDownW(ConvertIfOk(v4l2_capture([sel.w EXCEPT !.retcd = 0],
                                        FaultsAt(F, sel.n))))

\* the caller left the normalized previous frame in
\* cnt->imgs.image_vprvcy.image_norm
Framed(w, image) == [w EXCEPT !.cnt.image = image]

\* lines 1827-1844: the selection, the capture, the conversion, the
\* count-down, the return
v4l2_next_frame(t) ==
    /\ At(t, "n_frame")
    /\ \E F \in FaultSets(NextFaults \cup CtrlFaults \cup IntrFaults),
          image \in cnt[t].scenes :
         LET s == thr[t].dev
             fd == FdOf(dev[s])
         IN  \E w0 \in {v4l2_device_select(Framed(WorldOf(t, s), image), prof, F,
                                            Rej1(F), Rej2(F))} :
             \E sel \in {SelectLoops(w0, F)} :
             \E w3 \in {NextDeliver(sel, F)} :
             /\ Commit(t, s, fd, PathOf(fd, dev[s]), w3)
             /\ thr' = [thr EXCEPT ![t] =
                          [Done(t, "next", w3.retcd) EXCEPT
                              !.calls = w3.calls, !.newvals = w0.newvals,
                              !.faults = F,
                              !.disc = sel.n, !.warns = w3.warns,
                              !.got = IF w3.retcd = 0 THEN @ + 1 ELSE @]]
             /\ nfaults' = nfaults + Cardinality(F)
    /\ UNCHANGED <<video_devices, v4l2_mutex, prof, lastgrant>>

\* ------------------------------------------------------------------------
\* Queries (v4l2_palette_valid, v4l2_palette_fourcc, v4l2_parms_valid)
\* ------------------------------------------------------------------------
\* the read of a memory cell outside an allocation ends the process
Segv == -1

\* the arguments the queries are called with: palette indexes inside and
\* outside the table, frame rates, frame sizes; QueryJunk is what a read
\* outside the table can give
QueryPalettes == {-1, 8, 15, 21, 22}
FourccPalettes == (0 - 2)..(V4L2_PALETTE_COUNT_MAX + 2)
QueryRates == {15, 30}
QuerySizes == {<<8, 8>>, <<16, 8>>, <<8, 16>>}
QueryJunk == {0, V4L2_PIX_FMT_YUYV, Segv}
\* the values a read at index v4l2_palette can give beyond the table's own
JunkAt(v4l2_palette) ==
    IF v4l2_palette >= 0 /\ v4l2_palette <= V4L2_PALETTE_COUNT_MAX
    THEN {0} ELSE QueryJunk

\* palette_array[v4l2_palette].v4l2id as lines 1884 and 2000 read it,
\* without a test of the index: outside the table the read returns what
\* the memory next to the allocation holds (junk) or ends the process
PaletteRead(v4l2_palette, junk) ==
    IF v4l2_palette >= 0 /\ v4l2_palette <= V4L2_PALETTE_COUNT_MAX
    THEN palette_v4l2id(v4l2_palette) ELSE junk

\* VIDIOC_ENUM_FRAMESIZES: the discrete frame sizes of pixel_format
K_ENUM_FRAMESIZES(P, pixel_format) ==
    IF \E i \in 1..Len(P.framesizes) : i <= Len(P.fmts) /\ P.fmts[i] = pixel_format
    THEN P.framesizes[SetMin({i \in 1..Len(P.framesizes) :
                                i <= Len(P.fmts) /\ P.fmts[i] = pixel_format})]
    ELSE <<>>

\* lines 1883-1890: the VIDIOC_ENUM_FMT loop of v4l2_palette_valid
RECURSIVE PaletteValidLoop(_, _, _, _)
PaletteValidLoop(fmts, device_palette, v4l2id, retcd) ==
    IF device_palette >= Len(fmts) THEN retcd
    ELSE PaletteValidLoop(fmts, device_palette + 1, v4l2id,
             IF v4l2id = fmts[device_palette + 1] THEN 1 ELSE retcd)

\* the descriptor open() returns to a query: -1 when it fails
QueryOpen(openfails) ==
    IF openfails \/ FreeFds = {} THEN -1 ELSE SetMin(FreeFds)

\* the driver's state of the descriptors after a query has opened fd,
\* enumerated and closed it again (lines 1871, 1892)
QueryKfd(fd, path) ==
    IF fd < 0 THEN kfd
    ELSE [[kfd EXCEPT ![fd] = KOpened(path)] EXCEPT ![fd] = KClosed]

\* the read outside the table is made once the driver has enumerated
\* something to compare with
QueryCrash(fd, v4l2id, compared) == fd >= 0 /\ v4l2id = Segv /\ compared

\* the most signals that interrupt one ioctl of a query
MaxIntr == 2

\* how often a signal interrupts the first VIDIOC_ENUM_FMT of a query on
\* descriptor fd
QueryIntr(fd) == IF prof.signals /\ fd >= 0 THEN 0..MaxIntr ELSE {0}

\* lines 1871-1872, 1957-1958: vid_source = calloc(...) with the descriptor
\* of the query; every other field is 0, finish among them
QuerySource(fd) == [NoPrivate EXCEPT !.alloc = TRUE, !.fd_device = fd]

\* xioctl, lines 137-140, on an ioctl that intr signals interrupt one after
\* the other: the ioctls it issues until it returns
xioctl_issued(vid, intr) == IF xioctl_retries(vid) THEN intr + 1 ELSE 1

\* xioctl returns -1 with EINTR: the ioctl was interrupted and not repeated
xioctl_EINTR(vid, intr) == intr > 0 /\ ~xioctl_retries(vid)

\* n calls of request req
RECURSIVE Calls(_, _)
Calls(req, n) == IF n <= 0 THEN <<>> ELSE <<Call(req, 0, 0)>> \o Calls(req, n - 1)

\* the formats a query gets to see: none when its first VIDIOC_ENUM_FMT
\* returns -1
QueryFmts(fd, intr) ==
    IF fd < 0 \/ xioctl_EINTR(QuerySource(fd), intr) THEN <<>> ELSE prof.fmts

\* int v4l2_palette_valid(video_device, v4l2_palette), lines 1852-1906
v4l2_palette_valid(t) ==
    /\ At(t, "idle")
    /\ \E path \in {cnt[t].conf_video_device}, v4l2_palette \in QueryPalettes,
          openfails \in BOOLEAN :
       \E junk \in JunkAt(v4l2_palette), intr \in QueryIntr(QueryOpen(openfails)) :
         LET fd == QueryOpen(openfails)
             v4l2id == PaletteRead(v4l2_palette, junk)
             fmts == QueryFmts(fd, intr)
         IN  /\ thr' = [thr EXCEPT ![t] =
                   [Idle(t) EXCEPT !.op = "palette_valid",
                       !.args = <<path, v4l2_palette, fd, intr>>,
                       !.calls = IF fd < 0 THEN <<>>
                                 ELSE Calls("VIDIOC_ENUM_FMT",
                                            xioctl_issued(QuerySource(fd), intr)
                                              + Len(fmts)),
                       !.retcd = IF fd < 0 THEN 0
                                 ELSE PaletteValidLoop(fmts, 0, v4l2id, 0)]]
             /\ kfd' = QueryKfd(fd, path)
             /\ crashed' = (crashed \/ QueryCrash(fd, v4l2id, Len(fmts) > 0))
    /\ UNCHANGED <<video_devices, dev, v4l2_mutex, hwsel, hwctl, regions,
                   ctrl_arrays, prof, cnt, lastgrant, nfaults>>

\* the string of the fourcc for an index outside the table
FourccNULL == <<"N", "U", "L", "L">>

\* void v4l2_palette_fourcc(v4l2_palette, fourcc), lines 1908-1937
v4l2_palette_fourcc(t) ==
    /\ At(t, "idle")
    /\ \E v4l2_palette \in FourccPalettes :
         thr' = [thr EXCEPT ![t] =
                   [Idle(t) EXCEPT !.op = "palette_fourcc",
                       !.args = <<v4l2_palette>>,
                       !.fourcc = IF v4l2_palette > V4L2_PALETTE_COUNT_MAX
                                     \/ v4l2_palette < 0
                                  THEN FourccNULL
                                  ELSE palette_fourcc(v4l2_palette)]]
    /\ UNCHANGED <<video_devices, dev, v4l2_mutex, kfd, hwsel, hwctl, regions,
                   ctrl_arrays, prof, cnt, lastgrant, nfaults, crashed>>

\* lines 1995-2010: the VIDIOC_ENUM_FRAMEINTERVALS loop for one frame size;
\* q holds the arguments of v4l2_parms_valid and the code read from the
\* table
RECURSIVE FrameintLoop(_, _, _, _, _, _)
FrameintLoop(ivals, indx_frameint, pixelformat, size, q, retcd) ==
    IF indx_frameint >= Len(ivals) THEN retcd
    ELSE FrameintLoop(ivals, indx_frameint + 1, pixelformat, size, q,
             IF /\ q.v4l2id = pixelformat
                /\ size.width = q.width
                /\ size.height = q.height
                /\ ivals[indx_frameint + 1].numerator = 1
                /\ ivals[indx_frameint + 1].denominator = q.fps
             THEN 1 ELSE retcd)

\* lines 1983-2014: the VIDIOC_ENUM_FRAMESIZES loop for one format
RECURSIVE SizesLoop(_, _, _, _, _)
SizesLoop(sizes, indx_sizes, pixelformat, q, retcd) ==
    IF indx_sizes >= Len(sizes) THEN retcd
    ELSE SizesLoop(sizes, indx_sizes + 1, pixelformat, q,
             FrameintLoop(sizes[indx_sizes + 1].ivals, 0, pixelformat,
                          sizes[indx_sizes + 1], q, retcd))

\* lines 1972-2018: the VIDIOC_ENUM_FMT loop of v4l2_parms_valid
RECURSIVE FormatLoop(_, _, _, _)
FormatLoop(P, indx_format, q, retcd) ==
    IF indx_format >= Len(P.fmts) THEN retcd
    ELSE FormatLoop(P, indx_format + 1, q,
             SizesLoop(K_ENUM_FRAMESIZES(P, P.fmts[indx_format + 1]), 0,
                       P.fmts[indx_format + 1], q, retcd))

\* the driver enumerates at least one frame interval
HasFrameint(P) ==
    \E i \in 1..Len(P.fmts) :
       \E j \in 1..Len(K_ENUM_FRAMESIZES(P, P.fmts[i])) :
          Len(K_ENUM_FRAMESIZES(P, P.fmts[i])[j].ivals) > 0

\* the ioctls of the loops of lines 1972-2018 from format indx_format on:
\* each loop ends with the call that returns -1
RECURSIVE SizesCalls(_, _)
SizesCalls(sizes, indx_sizes) ==
    IF indx_sizes >= Len(sizes) THEN Calls("VIDIOC_ENUM_FRAMESIZES", 1)
    ELSE Calls("VIDIOC_ENUM_FRAMESIZES", 1)
         \o Calls("VIDIOC_ENUM_FRAMEINTERVALS", Len(sizes[indx_sizes + 1].ivals) + 1)
         \o SizesCalls(sizes, indx_sizes + 1)

RECURSIVE FormatCalls(_, _)
FormatCalls(P, indx_format) ==
    IF indx_format >= Len(P.fmts) THEN <<>>
    ELSE SizesCalls(K_ENUM_FRAMESIZES(P, P.fmts[indx_format + 1]), 0)
         \o Calls("VIDIOC_ENUM_FMT", 1)
         \o FormatCalls(P, indx_format + 1)

\* int v4l2_parms_valid(video_device, v4l2_palette, v4l2_fps, v4l2_width,
\* v4l2_height), lines 1939-2039
v4l2_parms_valid(t) ==
    /\ At(t, "idle")
    /\ \E path \in {cnt[t].conf_video_device}, v4l2_palette \in QueryPalettes,
          v4l2_fps \in QueryRates, size \in QuerySizes, openfails \in BOOLEAN :
       \E junk \in JunkAt(v4l2_palette), intr \in QueryIntr(QueryOpen(openfails)) :
         LET fd == QueryOpen(openfails)
             q == [v4l2id |-> PaletteRead(v4l2_palette, junk), fps |-> v4l2_fps,
                   width |-> size[1], height |-> size[2]]
             P == [prof EXCEPT !.fmts = QueryFmts(fd, intr)]
         IN  /\ thr' = [thr EXCEPT ![t] =
                   [Idle(t) EXCEPT !.op = "parms_valid",
                       !.args = <<path, v4l2_palette, v4l2_fps, size[1], size[2],
                                  fd, intr>>,
                       !.calls = IF fd < 0 THEN <<>>
                                 ELSE Calls("VIDIOC_ENUM_FMT",
                                            xioctl_issued(QuerySource(fd), intr))
                                      \o FormatCalls(P, 0),
                       !.retcd = IF fd < 0 THEN 0 ELSE FormatLoop(P, 0, q, 0)]]
             /\ kfd' = QueryKfd(fd, path)
             /\ crashed' = (crashed \/ QueryCrash(fd, q.v4l2id, HasFrameint(P)))
    /\ UNCHANGED <<video_devices, dev, v4l2_mutex, hwsel, hwctl, regions,
                   ctrl_arrays, prof, cnt, lastgrant, nfaults>>

\* ------------------------------------------------------------------------
\* Specification
\* ------------------------------------------------------------------------
StartStep(t) ==
    \/ v4l2_start_alloc(t)
    \/ v4l2_start_new(t)
    \/ v4l2_start_share(t)
    \/ v4l2_start_share_done(t)

CleanupStep(t) ==
    \/ v4l2_cleanup_begin(t)
    \/ v4l2_cleanup_lookup(t)
    \/ v4l2_cleanup_load(t)
    \/ v4l2_cleanup_store(t)
    \/ v4l2_cleanup_close(t)
    \/ v4l2_cleanup_unmap(t)
    \/ v4l2_cleanup_unlink(t)

NextStep(t) ==
    \/ v4l2_next_lookup(t)
    \/ v4l2_next_acquire(t)
    \/ v4l2_next_frame(t)

\* no other thread is inside a call of the capture layer
Alone(t) == \A u \in Threads \ {t} : thr[u].pc = "idle"

\* callers that never overlap their calls
SeqNext ==
    \E t \in Threads :
        \/ Alone(t) /\ v4l2_start_alloc(t)
        \/ Alone(t) /\ v4l2_start_new(t)
        \/ Alone(t) /\ v4l2_start_share(t)
        \/ Alone(t) /\ v4l2_start_share_done(t)
        \/ Alone(t) /\ v4l2_cleanup_begin(t)
        \/ Alone(t) /\ v4l2_cleanup_lookup(t)
        \/ Alone(t) /\ v4l2_cleanup_load(t)
        \/ Alone(t) /\ v4l2_cleanup_store(t)
        \/ Alone(t) /\ v4l2_cleanup_close(t)
        \/ Alone(t) /\ v4l2_cleanup_unmap(t)
        \/ Alone(t) /\ v4l2_cleanup_unlink(t)
        \/ Alone(t) /\ v4l2_next_lookup(t)
        \/ Alone(t) /\ v4l2_next_acquire(t)
        \/ Alone(t) /\ v4l2_next_frame(t)

\* callers that open and close devices without overlapping
OpenCloseNext ==
    \E t \in Threads :
        \/ Alone(t) /\ v4l2_start_alloc(t)
        \/ Alone(t) /\ v4l2_start_new(t)
        \/ Alone(t) /\ v4l2_start_share(t)
        \/ Alone(t) /\ v4l2_start_share_done(t)
        \/ Alone(t) /\ v4l2_cleanup_begin(t)
        \/ Alone(t) /\ v4l2_cleanup_lookup(t)
        \/ Alone(t) /\ v4l2_cleanup_load(t)
        \/ Alone(t) /\ v4l2_cleanup_store(t)
        \/ Alone(t) /\ v4l2_cleanup_close(t)
        \/ Alone(t) /\ v4l2_cleanup_unmap(t)
        \/ Alone(t) /\ v4l2_cleanup_unlink(t)

\* one consumer that opens a device, fetches frames and closes it
SoloNext ==
    \/ v4l2_start_alloc(1)
    \/ v4l2_start_new(1)
    \/ v4l2_cleanup_begin(1)
    \/ v4l2_cleanup_lookup(1)
    \/ v4l2_cleanup_load(1)
    \/ v4l2_cleanup_store(1)
    \/ v4l2_cleanup_close(1)
    \/ v4l2_cleanup_unmap(1)
    \/ v4l2_cleanup_unlink(1)
    \/ v4l2_next_lookup(1)
    \/ v4l2_next_acquire(1)
    \/ v4l2_next_frame(1)

\* one consumer that opens and closes a device and a second thread that
\* asks which formats and modes the device supports
IntrNext ==
    \/ v4l2_start_alloc(1)
    \/ v4l2_start_new(1)
    \/ v4l2_cleanup_begin(1)
    \/ v4l2_cleanup_lookup(1)
    \/ v4l2_cleanup_load(1)
    \/ v4l2_cleanup_store(1)
    \/ v4l2_cleanup_close(1)
    \/ v4l2_cleanup_unmap(1)
    \/ v4l2_cleanup_unlink(1)
    \/ v4l2_palette_valid(2)
    \/ v4l2_parms_valid(2)

\* one consumer that opens a device, fetches frames and closes it, and a
\* second thread that asks what the device supports
QueryNext ==
    \/ v4l2_start_alloc(1)
    \/ v4l2_start_new(1)
    \/ v4l2_cleanup_begin(1)
    \/ v4l2_cleanup_lookup(1)
    \/ v4l2_cleanup_load(1)
    \/ v4l2_cleanup_store(1)
    \/ v4l2_cleanup_close(1)
    \/ v4l2_cleanup_unmap(1)
    \/ v4l2_cleanup_unlink(1)
    \/ v4l2_next_lookup(1)
    \/ v4l2_next_acquire(1)
    \/ v4l2_next_frame(1)
    \/ v4l2_palette_valid(2)
    \/ v4l2_palette_fourcc(2)
    \/ v4l2_parms_valid(2)

\* threads opening and closing devices concurrently
RegNext == \E t \in Threads : StartStep(t) \/ CleanupStep(t)

\* threads opening devices and fetching frames concurrently
RRNext == \E t \in Threads : StartStep(t) \/ NextStep(t)

\* consumers that open, fetch frames and close concurrently
AllNext == \E t \in Threads : StartStep(t) \/ NextStep(t) \/ CleanupStep(t)

\* two consumers of one camera, one frame per turn, hardware errors within
\* the budget left by faults
InitShared(faults) ==
    /\ InitWith(Camera(2, <<BrightnessCtrl>>),
                [t \in Threads |-> Context(t, "/dev/video0", 0, 1, 1, <<>>)],
                faults)

\* two consumers, the second one of the same or of another camera
InitPaths(faults) ==
    \E p \in Paths :
        InitWith(Camera(2, <<BrightnessCtrl>>),
                 [t \in Threads |->
                     Context(t, IF t = 1 THEN "/dev/video0" ELSE p, 0, 1, 1, <<>>)],
                 faults)

\* two consumers of one camera, each with a quota of 0 .. MaxFrames frames
InitQuota ==
    \E q \in [Threads -> 0..MaxFrames] :
        InitWith(Camera(2, <<BrightnessCtrl>>),
                 [t \in Threads |-> Context(t, "/dev/video0", 0, q[t], 1, <<>>)],
                 MaxFaults)

\* two consumers of one camera, each with a quota of its own, negative
\* and zero included; hardware with errors
InitWindow ==
    \E q \in [Threads -> (0 - 1)..MaxFrames] :
        InitWith(Camera(2, <<BrightnessCtrl>>),
                 [t \in Threads |-> Context(t, "/dev/video0", 0, q[t], 1, <<>>)],
                 0)

\* two consumers of one camera that look at different inputs, each call of
\* v4l2_next switching the input; roundrobin_skip is 0 .. MaxSkip
InitInputs ==
    \E skip \in 0..MaxSkip :
        InitWith(Camera(2, <<BrightnessCtrl>>),
                 [t \in Threads |-> Context(t, "/dev/video0", t - 1, 1, skip, <<>>)],
                 MaxFaults)

\* the user parameter lists of the control scenarios
ParamLists ==
    {<<Param("brightness", 15)>>,
     <<Param("Brightness", -3)>>,
     <<Param("ID09963776", 7)>>,
     <<Param("brightness", 3), Param("brightness", 8)>>,
     <<[param_name |-> "brightness", param_value |-> <<"4", "x">>]>>,
     <<Param("white balance, automatic", 5)>>,
     <<Param("White Balance, Automatic", 0)>>,
     <<Param("power line frequency", 7), Param("Disabled", 2)>>,
     <<Param("50 Hz", 0), Param("menu item: Value 1", 0)>>}

\* two consumers of one camera with three controls, configured with one of
\* the parameter lists
InitParams ==
    \E params \in ParamLists :
        InitWith(Camera(2, <<BrightnessCtrl, WhiteBalanceCtrl, PowerLineCtrl>>),
                 [t \in Threads |-> Context(t, "/dev/video0", 0, 1, 1, params)],
                 MaxFaults)

\* the user parameter lists of the rollback scenarios
CtrlParamLists ==
    {<<Param("brightness", 2)>>,
     <<Param("ID09963776", 20), Param("Brightness", 2)>>,
     <<Param("white balance, automatic", 0)>>}

\* two consumers of one camera whose driver may refuse to write a control,
\* auto_brightness on the brightness control, a frame of full luminance
InitCtrl ==
    \E params \in CtrlParamLists :
        InitWith(CameraRejecting(2, <<WideBrightnessCtrl, WhiteBalanceCtrl>>, {1, 2}),
                 [t \in Threads |-> BrightContext(t, params, 1, {<<255>>})],
                 0)

\* the three controls auto_brightness can be set to work on
AutoCtrls ==
    <<WideBrightnessCtrl,
      [id |-> V4L2_CID_EXPOSURE, type |-> V4L2_CTRL_TYPE_INTEGER, minimum |-> 0,
       maximum |-> 100, default_value |-> 50, name |-> "Exposure", menu |-> <<>>],
      [id |-> V4L2_CID_EXPOSURE_ABSOLUTE, type |-> V4L2_CTRL_TYPE_INTEGER,
       minimum |-> 1, maximum |-> 140, default_value |-> 70,
       name |-> "Exposure (Absolute)", menu |-> <<>>]>>

\* the values of auto_brightness: off, the three methods, one above them
AutoMethods == 0..4

\* a consumer with auto_brightness set to any of its values, with or
\* without targets of its own, looking at a dark or at a
\* bright scene
InitAuto ==
    \E params \in {<<>>, <<Param("brightness", 2), Param("exposure", 10)>>},
       method \in AutoMethods,
       scene \in {<<0>>, <<255>>} :
        InitWith(Camera(2, AutoCtrls),
                 [t \in Threads |-> BrightContext(t, params, method, {scene})],
                 MaxFaults)

\* the user parameters of a consumer that sets up to three controls
ApplyParamLists ==
    {<<Param("brightness", 2)>>,
     <<Param("brightness", 20), Param("power line frequency", 0)>>,
     <<Param("brightness", 3), Param("power line frequency", 2),
       Param("white balance, automatic", 0)>>}

\* a consumer of a camera with an integer, a menu and a boolean control,
\* whose driver may refuse to write each of them; auto_brightness on the
\* brightness control, frames of a bright scene
InitApply ==
    \E params \in ApplyParamLists :
        InitWith(CameraRejecting(2, <<WideBrightnessCtrl, PowerLineCtrl,
                                     WhiteBalanceCtrl>>, {1, 2, 5}),
                 [t \in Threads |-> BrightContext(t, params, 1, {<<255>>})],
                 0)

\* minimum, maximum and default of the brightness control: ranges that
\* start at 0, above 0 and below 0
BrightRanges == {<<0, 60, 30>>, <<20, 120, 60>>, <<-64, 64, -1>>, <<-64, 64, 0>>}

\* the frames of a dark, a medium and a bright scene
Scenes == {<<0>>, <<128>>, <<255>>}

\* consumers of a camera with auto_brightness on the brightness control,
\* with or without a target of their own, looking at a scene that changes
\* from frame to frame
InitBright ==
    \E r \in BrightRanges, params \in {<<>>, <<Param("brightness", 40)>>} :
        InitWith(Camera(2, <<RangeCtrl(r)>>),
                 [t \in Threads |-> BrightContext(t, params, 1, Scenes)],
                 MaxFaults)

\* requested sizes: multiples of 8, other sizes, a negative one
FormatSizes == {<<8, 8>>, <<13, 1>>, <<16, 24>>, <<7, 9>>, <<-5, 8>>}

\* the value of the user's palette parameter: the default format, YUYV,
\* MJPEG, H264 and two values outside the catalog
FormatPalettes == {17, 15, 8, 21, 22, -1}

\* what a camera advertises and, of that, what it accepts
FormatDevices ==
    {[fmts |-> <<V4L2_PIX_FMT_YUYV>>, accepts |-> {V4L2_PIX_FMT_YUYV}],
     [fmts |-> <<V4L2_PIX_FMT_YUYV, V4L2_PIX_FMT_MJPEG>>,
      accepts |-> {V4L2_PIX_FMT_YUYV, V4L2_PIX_FMT_MJPEG}],
     [fmts |-> <<V4L2_PIX_FMT_YUYV, V4L2_PIX_FMT_MJPEG>>,
      accepts |-> {V4L2_PIX_FMT_YUYV}],
     [fmts |-> <<V4L2_PIX_FMT_MJPEG, V4L2_PIX_FMT_YUYV>>,
      accepts |-> {V4L2_PIX_FMT_YUYV}],
     [fmts |-> <<V4L2_PIX_FMT_H264>>, accepts |-> {V4L2_PIX_FMT_H264}],
     [fmts |-> <<V4L2_PIX_FMT_YUV420, V4L2_PIX_FMT_H264>>,
      accepts |-> {V4L2_PIX_FMT_YUV420, V4L2_PIX_FMT_H264}],
     [fmts |-> <<V4L2_PIX_FMT_YUYV, V4L2_PIX_FMT_H264>>,
      accepts |-> {V4L2_PIX_FMT_YUYV, V4L2_PIX_FMT_H264}],
     [fmts |-> <<V4L2_PIX_FMT_NV12, V4L2_PIX_FMT_YUYV>>,
      accepts |-> {V4L2_PIX_FMT_NV12, V4L2_PIX_FMT_YUYV}],
     [fmts |-> <<V4L2_PIX_FMT_NV12>>, accepts |-> {V4L2_PIX_FMT_NV12}]}

\* a context that asks for size and, unless it is the default, for palette
FormatContext(t, size, palette) ==
    [Context(t, "/dev/video0", 0, 1, 1,
             IF palette = 17 THEN <<>> ELSE <<Param("palette", palette)>>)
        EXCEPT !.conf_width = size[1], !.conf_height = size[2]]

\* every size on a camera with one format, and every palette on every
\* camera at two sizes
InitFormat ==
    \/ \E size \in FormatSizes :
          InitWith(FormatCamera(<<V4L2_PIX_FMT_YUYV>>, {V4L2_PIX_FMT_YUYV}),
                   [t \in Threads |-> FormatContext(t, size, 17)], MaxFaults)
    \/ \E size \in {<<8, 8>>, <<13, 1>>}, palette \in FormatPalettes,
          d \in FormatDevices :
          InitWith(FormatCamera(d.fmts, d.accepts),
                   [t \in Threads |-> FormatContext(t, size, palette)], MaxFaults)

\* the sizes a driver answers with: the requested one (0) or one of its own
StrideSizes == {<<0, 0>>, <<16, 8>>, <<12, 8>>, <<8, 12>>, <<16, 16>>}

\* bytesperline as a multiple of the width plus a padding: two bytes and
\* one byte per pixel, lines padded by 4 and by 8 bytes, no stride reported,
\* a stride below the width
StrideLines == {<<2, 0>>, <<1, 0>>, <<1, 4>>, <<1, 8>>, <<0, 0>>, <<1, -4>>}

\* a consumer asking for an aligned or an odd size from a camera that
\* answers with a size and a stride of its own (a driver that pads its
\* lines answers with its own width); hardware with errors
InitStride ==
    \E size \in {<<8, 8>>, <<16, 8>>, <<13, 1>>}, fixed \in StrideSizes,
       line \in StrideLines :
        /\ fixed[1] = 0 => line[2] <= 0
        /\ InitWith([FormatCamera(<<V4L2_PIX_FMT_YUYV>>, {V4L2_PIX_FMT_YUYV}) EXCEPT
                     !.fixed_w = fixed[1], !.fixed_h = fixed[2],
                     !.bpl_mul = line[1], !.bpl_pad = line[2]],
                 [t \in Threads |-> FormatContext(t, size, 17)], 0)

\* the signals a consumer thread has blocked when it starts
SignalMasks == {{}, {"SIGUSR2"}, {"SIGTERM", "SIGUSR2"}}

\* a consumer whose waits are interrupted by signals, with the shutdown
\* flag clear or set and some signals blocked
InitSignals ==
    \E finish \in BOOLEAN, blocked \in SignalMasks :
        InitWith([Camera(2, <<BrightnessCtrl>>) EXCEPT !.signals = TRUE],
                 [t \in Threads |->
                     [Context(t, "/dev/video0", 0, 1, 1, <<>>) EXCEPT
                         !.finish = finish, !.blocked = blocked]],
                 0)

\* a consumer and a thread whose queries are interrupted by signals, with
\* the shutdown flag clear or set; hardware without errors
InitIntr ==
    \E finish \in BOOLEAN :
        InitWith([Camera(2, <<BrightnessCtrl>>) EXCEPT !.signals = TRUE],
                 [t \in Threads |->
                     [Context(t, "/dev/video0", 0, 1, 1, <<>>) EXCEPT
                         !.finish = finish]],
                 MaxFaults)

\* a consumer of a camera that grants 0 .. MMAP_BUFFERS buffers, hardware
\* with errors
InitPool ==
    \E grant \in 0..MMAP_BUFFERS :
        InitWith(Camera(grant, <<BrightnessCtrl>>),
                 [t \in Threads |-> Context(t, "/dev/video0", 0, 1, 1, <<>>)], 0)

\* a frame interval and a discrete frame size with its intervals, as
\* VIDIOC_ENUM_FRAMEINTERVALS and VIDIOC_ENUM_FRAMESIZES report them
Frameint(numerator, denominator) ==
    [numerator |-> numerator, denominator |-> denominator]
Framesize(width, height, ivals) ==
    [width |-> width, height |-> height, ivals |-> ivals]

\* cameras for the queries: one format with two sizes; two formats, one of
\* them with the interval 2/60; H264 alone; a driver that enumerates no
\* frame sizes; a driver that enumerates no formats
QueryDevices ==
    {[fmts |-> <<V4L2_PIX_FMT_YUYV>>,
      framesizes |-> << <<Framesize(8, 8, <<Frameint(1, 30), Frameint(1, 15)>>),
                         Framesize(16, 8, <<Frameint(1, 30)>>)>> >>],
     [fmts |-> <<V4L2_PIX_FMT_YUYV, V4L2_PIX_FMT_MJPEG>>,
      framesizes |-> << <<Framesize(8, 8, <<Frameint(1, 15)>>)>>,
                        <<Framesize(16, 8, <<Frameint(1, 30)>>),
                          Framesize(8, 8, <<Frameint(2, 60)>>)>> >>],
     [fmts |-> <<V4L2_PIX_FMT_H264>>,
      framesizes |-> << <<Framesize(8, 8, <<Frameint(1, 30)>>)>> >>],
     [fmts |-> <<V4L2_PIX_FMT_YUYV>>, framesizes |-> <<>>],
     [fmts |-> <<>>, framesizes |-> <<>>]}

InitQuery ==
    \E d \in QueryDevices :
        InitWith([FormatCamera(d.fmts, {V4L2_PIX_FMT_YUYV}) EXCEPT
                     !.framesizes = d.framesizes],
                 [t \in Threads |-> Context(t, "/dev/video0", 0, 1, 1, <<>>)],
                 MaxFaults)

\* sequential callers, hardware without errors
SpecSeq == InitShared(MaxFaults) /\ [][SeqNext]_vars
\* sequential open and close, hardware with errors
SpecOpen == InitPaths(0) /\ [][OpenCloseNext]_vars
\* concurrent open and next, hardware with errors
SpecCapture == InitShared(0) /\ [][RRNext]_vars
\* concurrent open and next, each consumer with its own quota
SpecRR == InitQuota /\ [][RRNext]_vars
\* concurrent open and next, the consumers switching the input
SpecSelect == InitInputs /\ [][RRNext]_vars
\* sequential callers, user parameters for the controls
SpecParams == InitParams /\ [][SeqNext]_vars
\* one consumer, a driver that refuses control writes
SpecCtrl == InitCtrl /\ [][SoloNext]_vars
\* one consumer, auto_brightness
SpecBright == InitBright /\ [][SoloNext]_vars
\* one consumer, sizes, palettes and cameras with several formats
SpecFormat == InitFormat /\ [][SoloNext]_vars
\* one consumer, signals during the wait for a frame
SpecSignals == InitSignals /\ [][SoloNext]_vars
\* one consumer, cameras granting any number of buffers
SpecPool == InitPool /\ [][SoloNext]_vars
\* one consumer and a thread that queries the device
SpecQuery == InitQuery /\ [][QueryNext]_vars
\* concurrent open and close
SpecReg == InitShared(MaxFaults) /\ [][RegNext]_vars
\* consumers of the same or of different devices that open them and fetch
\* frames concurrently
SpecPaths == InitPaths(MaxFaults) /\ [][RRNext]_vars
\* a consumer and a second thread that asks what the device supports, on
\* a system that delivers signals to both
SpecIntr == InitIntr /\ [][IntrNext]_vars
\* concurrent open and next under a fair scheduler: a consumer goes on
\* calling v4l2_next, and a thread at a lock that stays free takes it;
\* pthread_mutex_lock promises no order among the threads waiting for a
\* mutex that is taken again and again
Fairness ==
    \A t \in Threads : WF_vars(v4l2_next_lookup(t)) /\ WF_vars(v4l2_next_acquire(t))
SpecFair == InitQuota /\ [][RRNext]_vars /\ Fairness
\* concurrent open and next, each consumer with its own quota, hardware
\* with errors
SpecWindow == InitWindow /\ [][RRNext]_vars
\* one consumer negotiating sizes and strides
SpecStride == InitStride /\ [][SoloNext]_vars
\* one consumer under each setting of auto_brightness
SpecAuto == InitAuto /\ [][SoloNext]_vars
\* one consumer whose controls are applied at the open and at each frame
SpecApply == InitApply /\ [][SoloNext]_vars
\* consumers of one device that open it, fetch frames and close it
\* concurrently
SpecAll == InitShared(MaxFaults) /\ [][AllNext]_vars

\* ------------------------------------------------------------------------
\* Properties
\* ------------------------------------------------------------------------
\* the devices of the list
RECURSIVE ListFrom(_, _)
ListFrom(s, n) ==
    IF s = NULL \/ n = 0 THEN {} ELSE {s} \cup ListFrom(dev[s].next, n - 1)
Registry == ListFrom(video_devices, WalkBound)

\* the consumers that opened path p and did not close it
Users(p) ==
    {t \in Threads : cnt[t].video_dev >= 0 /\ cnt[t].conf_video_device = p}

AllIdle == \A t \in Threads : thr[t].pc = "idle"

Names(calls) == [i \in 1..Len(calls) |-> calls[i].req]

\* C1: with callers that do not overlap, between calls every path that is
\* open has one registered device whose usage_count is the number of its
\* consumers, all of them holding the same handle (two opens: 2, after one
\* cleanup: 1); once the last consumer has cleaned up, the device was
\* streamed off, closed and unmapped, and is not in the registry.
C1_SequentialSharing ==
    AllIdle =>
      /\ \A p \in Paths :
           IF Users(p) = {}
           THEN /\ \A s \in Registry : dev[s].video_device # p
                /\ \A f \in FdIds : ~(kfd[f].open /\ kfd[f].path = p)
           ELSE \E s \in Registry :
                  /\ dev[s].live /\ dev[s].video_device = p
                  /\ dev[s].usage_count = Cardinality(Users(p))
                  /\ \A t \in Users(p) : cnt[t].video_dev = dev[s].fd_device
                  /\ kfd[dev[s].fd_device].open
                  /\ kfd[dev[s].fd_device].streaming
      /\ regions = UNION {BufferPtrs(dev[s].priv) : s \in Registry}
      /\ \A t \in Threads :
           thr[t].op = "cleanup" /\ Users(cnt[t].conf_video_device) = {}
           => \E u \in Threads :
                 /\ thr[u].op = "cleanup"
                 /\ Names(thr[u].calls) = <<"VIDIOC_STREAMOFF", "close", "munmap">>

\* the second consumer opened the shared device, then the first one closed
\* its reference: one consumer is left
C1_Witness ==
    /\ AllIdle
    /\ thr[1].op = "cleanup" /\ thr[2].op = "share"
    /\ \E s \in Registry : dev[s].usage_count = 1
                           /\ cnt[2].video_dev = dev[s].fd_device

\* the threads tearing the device of slot s down (lines 1763-1777)
TearingDown(s) ==
    {u \in Threads : thr[u].dev = s /\ thr[u].pc \in {"c_close", "c_unmap", "c_unlink"}}

\* C2: with concurrent start and cleanup calls, a handle that a consumer
\* holds (opened, not closed) is the handle of a live device of the registry
\* that no thread is tearing down.
C2_HeldHandleRegistered ==
    \A t \in Threads :
        thr[t].pc = "idle" /\ cnt[t].video_dev >= 0
        => \E s \in Registry :
              /\ dev[s].live /\ dev[s].fd_device = cnt[t].video_dev
              /\ TearingDown(s) = {}

\* thread t takes a step that is a whole v4l2_start on a path not in the list
StartNewStep(t) ==
    /\ thr[t].pc = "s_new" /\ cnt[t].video_dev < 0
    /\ thr'[t].pc = "idle" /\ thr'[t].op = "start"
    /\ \A u \in Threads \ {t} : thr'[u] = thr[u] /\ cnt'[u] = cnt[u]

\* the device calls of the open, the capability query, the input selection,
\* the format negotiation, the buffer setup and the stream-on
OpenCalls ==
    {"open", "VIDIOC_QUERYCAP", "VIDIOC_ENUMINPUT", "VIDIOC_S_INPUT",
     "VIDIOC_REQBUFS", "VIDIOC_QUERYBUF", "mmap", "VIDIOC_QBUF",
     "VIDIOC_STREAMON"}

\* C3: a v4l2_start on a path not yet open during which one of these calls
\* fails returns a negative value (a format the device refuses is a failed
\* step only once the advertised formats are refused as well), and a
\* v4l2_start that returns a negative value leaves the caller without handle
\* and changes neither the list nor any device record in it.
C3_FailedOpenLeavesRegistry ==
    [][\A t \in Threads :
          StartNewStep(t) =>
            /\ (\E f \in thr'[t].faults : f.name \in OpenCalls) => thr'[t].retcd < 0
            /\ thr'[t].retcd < 0
               => /\ cnt'[t].video_dev < 0
                  /\ video_devices' = video_devices
                  /\ Registry' = Registry
                  /\ \A s \in Registry : dev'[s] = dev[s]]_vars

\* a start failed while another device is open
C3_Witness ==
    \E t \in Threads :
        /\ thr[t].pc = "idle" /\ thr[t].op = "start" /\ thr[t].retcd < 0
        /\ \E s \in Registry : dev[s].usage_count >= 1 /\ dev[s].live
        /\ nfaults > 0

\* the process-side resources a device holds
FdsOpen == {f \in FdIds : kfd[f].open}

\* C4: a v4l2_start that fails after it asked for buffers (VIDIOC_REQBUFS
\* was issued) ends with the mappings, the control arrays and the open
\* descriptors the process had before the call.
C4_FailedSetupReleasesAll ==
    [][\A t \in Threads :
          /\ StartNewStep(t) /\ thr'[t].retcd < 0
          /\ \E i \in 1..Len(thr'[t].calls) : thr'[t].calls[i].req = "VIDIOC_REQBUFS"
          => /\ regions' = regions
             /\ ctrl_arrays' = ctrl_arrays
             /\ FdsOpen' = FdsOpen]_vars

\* thread t takes the first / the second step of a v4l2_start that shares
ShareStep(t) ==
    thr[t].pc = "idle" /\ thr'[t].pc = "share"
ShareDoneStep(t) ==
    thr[t].pc = "share" /\ thr'[t].pc = "idle"

\* C5: v4l2_start on a path that is in the list issues no device call,
\* changes nothing of the device but usage_count, which grows by one,
\* returns the device's descriptor and copies the device's size into the
\* caller's context.
C5_ShareOnlyCounts ==
    [][\A t \in Threads :
          /\ ShareStep(t) =>
               /\ UNCHANGED <<dev, kfd, hwsel, hwctl, regions, video_devices>>
               /\ thr'[t].calls = <<>>
               /\ thr'[t].tmp = dev[thr'[t].dev].usage_count
               /\ cnt'[t].imgs_width = dev[thr'[t].dev].width
               /\ cnt'[t].imgs_height = dev[thr'[t].dev].height
               /\ cnt'[t].conf_width = dev[thr'[t].dev].width
               /\ cnt'[t].conf_height = dev[thr'[t].dev].height
          /\ ShareDoneStep(t) =>
               /\ UNCHANGED <<kfd, hwsel, hwctl, regions, video_devices>>
               /\ dev' = [dev EXCEPT ![thr[t].dev].usage_count = thr[t].tmp + 1]
               /\ thr'[t].calls = <<>>
               /\ thr'[t].retcd = dev[thr[t].dev].fd_device
               /\ cnt'[t].video_dev = dev[thr[t].dev].fd_device]_vars

\* a consumer has just joined a device another consumer opened
C5_Witness ==
    \E t \in Threads :
        /\ thr[t].pc = "idle" /\ thr[t].op = "share" /\ thr[t].retcd >= 0
        /\ \E s \in Registry : dev[s].usage_count = 2
                               /\ dev[s].fd_device = cnt[t].video_dev

\* thread t takes the last step of a v4l2_next that found its device
NextFrameStep(t) ==
    thr[t].pc = "n_frame" /\ thr'[t].pc = "idle"

\* C6: when the previous v4l2_next of a consumer failed and the device
\* rejects nothing during this one, this v4l2_next delivers a frame.
C6_NextRecovers ==
    [][\A t \in Threads :
          /\ NextFrameStep(t)
          /\ thr[t].op = "next" /\ thr[t].retcd < 0
          /\ nfaults' = nfaults
          => thr'[t].retcd = 0]_vars

\* thread t becomes the owner of the device of slot s
Grant(t, s) ==
    /\ thr[t].pc = "n_own" /\ thr[t].dev = s /\ thr'[t].pc = "n_frame"
    /\ dev[s].owner # cnt[t].threadnr

\* the threads waiting for the mutex of the device of slot s
Requesting(s) ==
    {u \in Threads : thr[u].pc = "n_own" /\ thr[u].dev = s
                     /\ dev[s].owner # cnt[u].threadnr}

\* C7: with two consumers of one device and roundrobin_frames = 1, no
\* consumer is granted the device twice in a row while the other one is
\* requesting it.
C7_StrictAlternation ==
    [][\A t \in Threads, s \in Slots :
          /\ Grant(t, s)
          /\ \A u \in Threads : cnt[u].conf_roundrobin_frames = 1
          /\ Requesting(s) \ {t} # {}
          => lastgrant[s] # t]_vars

Quota(t) == MAX2(1, cnt[t].conf_roundrobin_frames)

DevOf(t) == CHOOSE s \in Registry : dev[s].fd_device = cnt[t].video_dev

\* C9: a v4l2_next that finds the selection changed discards buffer_count
\* frames and then roundrobin_skip more before the frame it delivers; one
\* that finds it unchanged discards none.
C9_DiscardCount ==
    \A t \in Threads :
        thr[t].pc = "idle" /\ thr[t].op = "next" /\ thr[t].retcd = 0
        => thr[t].disc = IF thr[t].newvals
                         THEN dev[DevOf(t)].buffer_count + cnt[t].conf_roundrobin_skip
                         ELSE 0

\* the value the documentation of the controls asks for
Clamp(v, lo, hi) == IF v < lo THEN lo ELSE IF v > hi THEN hi ELSE v
Requested(devitem, v) ==
    IF devitem.ctrl_type = V4L2_CTRL_TYPE_BOOLEAN
    THEN (IF v # 0 THEN 1 ELSE 0)
    ELSE Clamp(v, devitem.ctrl_minimum, devitem.ctrl_maximum)

\* the user parameters naming a descriptor, by identifier or by name
Naming(devitem, params) ==
    {i \in 1..Len(params) :
        \/ ToLower(params[i].param_name) = ToLower(devitem.ctrl_iddesc)
        \/ ToLower(params[i].param_name) = ToLower(devitem.ctrl_name)}

SetMax(S) == CHOOSE x \in S : \A y \in S : y <= x

\* C10: between calls, every integer, menu or boolean control named by a
\* user parameter is staged at, and the hardware holds, the requested value
\* (clamped to [minimum, maximum]; 1 or 0 for a boolean) of the last such
\* parameter; a menu-item sub-descriptor is never staged, and every
\* VIDIOC_S_CTRL issued carries the value of a control descriptor.
C10_StagedValue ==
    \A t \in Threads :
        thr[t].pc = "idle" /\ thr[t].op \in {"start", "next"} /\ thr[t].retcd >= 0
        /\ cnt[t].video_dev >= 0
        => LET d == dev[DevOf(t)]
               params == cnt[t].vdev.params_array
           IN  /\ \A i \in 1..Len(d.devctrl) :
                    LET devitem == d.devctrl[i] IN
                    IF devitem.ctrl_menuitem
                    THEN devitem.ctrl_newval = Uninit /\ devitem.ctrl_currval = Uninit
                    ELSE IF Naming(devitem, params) = {}
                    THEN devitem.ctrl_newval = devitem.ctrl_default
                    ELSE LET last == params[SetMax(Naming(devitem, params))]
                             want == Requested(devitem, atoi(last.param_value))
                         IN  /\ devitem.ctrl_newval = want
                             /\ devitem.ctrl_currval = want
                             /\ hwctl[d.video_device][devitem.ctrl_id] = want
               /\ \A k \in 1..Len(thr[t].calls) :
                    thr[t].calls[k].req = "VIDIOC_S_CTRL"
                    => \E i \in 1..Len(d.devctrl) :
                          /\ ~d.devctrl[i].ctrl_menuitem
                          /\ d.devctrl[i].ctrl_id = thr[t].calls[k].arg
                          /\ d.devctrl[i].ctrl_newval = thr[t].calls[k].val

\* a request above the maximum was clamped to it and applied
C10_Witness ==
    \E t \in Threads :
        /\ thr[t].pc = "idle" /\ thr[t].op = "start" /\ thr[t].retcd >= 0
        /\ thr[t].warns = 1
        /\ \E k \in 1..Len(thr[t].calls) :
              thr[t].calls[k] = Call("VIDIOC_S_CTRL", V4L2_CID_BRIGHTNESS, 10)
        /\ hwctl["/dev/video0"][V4L2_CID_BRIGHTNESS] = 10

\* C11: a v4l2_next of a consumer whose previous call, its own open or a
\* v4l2_next, staged the same user parameters logs no out-of-range warning:
\* every request out of range was warned about by that call already.
C11_WarnedOnce ==
    [][\A t \in Threads :
          /\ NextFrameStep(t)
          /\ thr[t].op \in {"start", "next"}
          /\ cnt'[t].vdev.params_array = cnt[t].vdev.params_array
          => thr'[t].warns = 0]_vars

\* the VIDIOC_S_CTRL calls on control id among calls
SetCalls(calls, id) ==
    {k \in 1..Len(calls) : calls[k].req = "VIDIOC_S_CTRL" /\ calls[k].arg = id}

\* thread t's call refused descriptor i of the device in slot s in both
\* passes
RefusedTwice(t, s, i) ==
    /\ Fault("VIDIOC_S_CTRL retry", i) \in thr'[t].faults
    /\ dev'[s].live /\ i <= Len(dev'[s].devctrl)
    /\ Cardinality(SetCalls(thr'[t].calls, dev'[s].devctrl[i].ctrl_id)) = 2

\* descriptor i is left at currval, requested and current, the hardware was
\* not written and the user parameters naming it read currval
RolledBack(t, s, i, currval) ==
    LET devitem == dev'[s].devctrl[i]
        params == cnt'[t].vdev.params_array
    IN  /\ devitem.ctrl_newval = currval
        /\ devitem.ctrl_currval = currval
        /\ hwctl'[dev'[s].video_device][devitem.ctrl_id]
             = hwctl[dev'[s].video_device][devitem.ctrl_id]
        /\ \A j \in Naming(devitem, params) : params[j].param_value = itoa(currval)

\* C12: a control the driver refuses in both passes of v4l2_ctrls_set is
\* rolled back: requested value = current value = the value before the
\* call, every user parameter naming it by name or identifier rewritten to
\* that value, the hardware not written; the v4l2_start still returns the
\* descriptor, and a v4l2_next fails only when its capture does.
C12_RollbackKeepsDevice ==
    [][\A t \in Threads :
          /\ StartNewStep(t) /\ (\E f \in thr'[t].faults : f \in CtrlFaults)
             => thr'[t].retcd >= 0
          /\ \A s \in Slots, i \in prof.rejects :
                /\ StartNewStep(t) /\ dev'[s].fd_device = thr'[t].retcd
                   /\ RefusedTwice(t, s, i)
                   => RolledBack(t, s, i,
                          hwctl[dev'[s].video_device][dev'[s].devctrl[i].ctrl_id])
                /\ NextFrameStep(t) /\ thr[t].dev = s /\ RefusedTwice(t, s, i)
                   => /\ RolledBack(t, s, i, dev[s].devctrl[i].ctrl_currval)
                      /\ \/ thr'[t].retcd = 0
                         \/ thr'[t].calls[Len(thr'[t].calls)].req
                               \in {"VIDIOC_QBUF", "VIDIOC_DQBUF"}]_vars

\* the brightness the user asked for was refused twice while the device was
\* opened: the device is open with the driver's value and the parameter
\* reads that value
C12_Witness ==
    \E t \in Threads :
        /\ thr[t].pc = "idle" /\ thr[t].op = "start" /\ thr[t].retcd >= 0
        /\ Fault("VIDIOC_S_CTRL retry", 1) \in thr[t].faults
        /\ Cardinality(SetCalls(thr[t].calls, V4L2_CID_BRIGHTNESS)) = 2
        /\ cnt[t].conf_params = <<Param("brightness", 2)>>
        /\ cnt[t].vdev.params_array = <<Param("brightness", 12)>>

\* the descriptor of the control auto_brightness works on
AutoIndex(t, s) ==
    CHOOSE i \in 1..Len(dev[s].devctrl) :
        dev[s].devctrl[i].ctrl_id = AutoTargetId(cnt[t].conf_auto_brightness)

\* the target v4l2_autobright of thread t works with on the device of slot s
AutoTarget(t, s) ==
    AutoFindCtrl(dev[s].devctrl, cnt[t].conf_auto_brightness, 1,
                 [device_value |-> -1, parm_max |-> 255, parm_min |-> 0,
                  target |-> AutoUserTarget(cnt[t].vdev.params_array,
                                            cnt[t].conf_auto_brightness, 1, -1)]).target

\* the average of every 10th pixel of the frame thread t's v4l2_next looks at
AutoMean(t) ==
    LET smp == AutoSample(cnt'[t].image, cnt[t].imgs_motionsize, 0, 0, 0)
    IN  cdiv(smp.avg, smp.pixel_count)

\* the sample v4l2_autobright of thread t compares with the window
AutoAvg(t, s) ==
    LET smp == AutoSample(cnt'[t].image, cnt[t].imgs_motionsize, 0, 0, 0)
        devitem == dev[s].devctrl[AutoIndex(t, s)]
    IN  AutoScaled(smp.avg, smp.pixel_count, devitem.ctrl_maximum, devitem.ctrl_minimum)

\* thread t finishes a v4l2_next with auto_brightness on a device that has
\* the control
AutoStepOf(t) ==
    /\ NextFrameStep(t)
    /\ cnt[t].conf_auto_brightness \in 1..3
    /\ \E i \in 1..Len(dev[thr[t].dev].devctrl) :
          dev[thr[t].dev].devctrl[i].ctrl_id = AutoTargetId(cnt[t].conf_auto_brightness)

\* C13: when the sample is above target + 20 and the control is above its
\* minimum, the v4l2_next leaves the control staged at a value below the
\* current one and not below the minimum.
C13_DecreasesAboveWindow ==
    [][\A t \in Threads :
          AutoStepOf(t) =>
            LET s == thr[t].dev
                i == AutoIndex(t, s)
                devitem == dev[s].devctrl[i]
            IN  /\ AutoAvg(t, s) > AutoTarget(t, s) + parm_hysteresis
                /\ devitem.ctrl_currval > devitem.ctrl_minimum
                => /\ dev'[s].devctrl[i].ctrl_newval < devitem.ctrl_currval
                   /\ dev'[s].devctrl[i].ctrl_newval >= devitem.ctrl_minimum]_vars

\* the sample of thread t's v4l2_next lies within target - 20 .. target + 20
InBand(t, s) ==
    /\ AutoAvg(t, s) >= AutoTarget(t, s) - parm_hysteresis
    /\ AutoAvg(t, s) <= AutoTarget(t, s) + parm_hysteresis

\* C14: a v4l2_next whose sample lies within the hysteresis band leaves the
\* value the hardware holds for the control as it was before the call,
\* with a target given by the user as well as with the default one.
C14_UnchangedInBand ==
    [][\A t \in Threads :
          AutoStepOf(t) /\ InBand(t, thr[t].dev)
          => LET s == thr[t].dev
                 id == dev[s].devctrl[AutoIndex(t, s)].ctrl_id
             IN  hwctl'[dev[s].video_device][id] = hwctl[dev[s].video_device][id]]_vars

\* no user parameter gives thread t's auto_brightness a target
NoUserTarget(t) ==
    AutoUserTarget(cnt[t].vdev.params_array, cnt[t].conf_auto_brightness, 1, -1) = -1

\* C15: without a target from the user, the target v4l2_autobright places
\* its window around is the midpoint (minimum + maximum) / 2 of the control.
C15_DefaultTargetMidpoint ==
    [][\A t \in Threads :
          AutoStepOf(t) /\ NoUserTarget(t)
          => LET s == thr[t].dev
                 devitem == dev[s].devctrl[AutoIndex(t, s)]
             IN  AutoTarget(t, s)
                   = cdiv(devitem.ctrl_minimum + devitem.ctrl_maximum, 2)]_vars

\* C16: the sample a v4l2_next that reaches the sampling (lines 545-556)
\* compares with the window, the average of every 10th pixel scaled to the
\* control, lies within the control's [minimum, maximum].
C16_SampleInRange ==
    [][\A t \in Threads :
          /\ AutoStepOf(t)
          /\ dev[thr[t].dev].devctrl[AutoIndex(t, thr[t].dev)].ctrl_currval # -1
          => LET s == thr[t].dev
                 devitem == dev[s].devctrl[AutoIndex(t, s)]
             IN  /\ AutoMean(t) \in 0..255
                 /\ AutoAvg(t, s) >= devitem.ctrl_minimum
                 /\ AutoAvg(t, s) <= devitem.ctrl_maximum]_vars

\* the smallest multiple of 8 that is >= n
Ceil8(n) == CHOOSE m \in n..(n + 7) : m % 8 = 0

\* thread t's v4l2_start on a new device went through the negotiation
NegotiationStep(t) ==
    /\ StartNewStep(t)
    /\ \E k \in 1..Len(thr'[t].calls) :
          thr'[t].calls[k].req \in {"VIDIOC_TRY_FMT", "VIDIOC_ENUM_FMT"}

CatalogFormat(pixelformat) ==
    /\ pixelformat # V4L2_PIX_FMT_H264
    /\ \E indx \in 0..V4L2_PALETTE_COUNT_MAX : palette_v4l2id(indx) = pixelformat

\* a format the camera advertises and accepts at the size asked for, with a
\* stride that passes the validation
Workable(pixelformat) ==
    /\ \E i \in 1..Len(prof.fmts) : prof.fmts[i] = pixelformat
    /\ pixelformat \in prof.accepts
    /\ CatalogFormat(pixelformat)

\* C18: a v4l2_start whose negotiation runs on a camera with at least one
\* advertised catalog format other than H264 that passes the trial, the
\* stride validation and the commit does not fail.
C18_SucceedsWithWorkableFormat ==
    [][\A t \in Threads :
          /\ NegotiationStep(t)
          /\ \E i \in 1..Len(prof.fmts) : Workable(prof.fmts[i])
          => thr'[t].retcd >= 0]_vars

\* C19: the pixel format recorded on every opened device is a catalog
\* format other than H264 and is the format that the device echoed in the
\* trial (the format structure of the handle), whatever palette the user
\* asked for and whatever the camera advertises.
C19_NeverH264 ==
    \A s \in Registry :
       dev[s].priv # NoPrivate
       => /\ CatalogFormat(dev[s].pixfmt_src)
          /\ dev[s].pixfmt_src = dev[s].priv.dst_fmt.pixelformat

\* the user asked for palette 21 on a camera that advertises and accepts
\* H264 after YUYV, and the device is open with YUYV
C19_Witness ==
    /\ cnt[1].conf_params = <<Param("palette", 21)>>
    /\ prof.fmts = <<V4L2_PIX_FMT_YUYV, V4L2_PIX_FMT_H264>>
    /\ V4L2_PIX_FMT_H264 \in prof.accepts
    /\ \E s \in Registry :
          /\ dev[s].priv # NoPrivate
          /\ dev[s].pixfmt_src = V4L2_PIX_FMT_YUYV
          /\ dev[s].priv.dst_fmt.pixelformat = V4L2_PIX_FMT_YUYV

\* C20: a v4l2_next whose wait for a buffer was interrupted by a signal
\* while the consumer's shutdown flag was clear does not return an error.
C20_InterruptRetried ==
    [][\A t \in Threads :
          /\ NextFrameStep(t)
          /\ Interrupted(thr'[t].faults)
          /\ ~cnt[t].finish
          => thr'[t].retcd >= 0]_vars

\* thread t's v4l2_next made exactly one call of v4l2_capture
OneCaptureStep(t) ==
    /\ NextFrameStep(t)
    /\ thr'[t].disc = 0
    /\ \E k \in 1..Len(thr'[t].calls) :
          thr'[t].calls[k].req \in {"VIDIOC_QBUF", "VIDIOC_DQBUF"}

\* C21: after a call of v4l2_capture, whether it succeeded or failed in
\* the requeue or in the dequeue, the signals the thread has blocked are
\* the ones it had blocked before the call.
C21_MaskRestored ==
    [][\A t \in Threads :
          OneCaptureStep(t) => cnt'[t].blocked = cnt[t].blocked]_vars

\* the number of calls of request req among calls
CallCount(calls, req) ==
    Cardinality({k \in 1..Len(calls) : calls[k].req = req})

\* C22: a v4l2_start that asks for the buffers of a camera granting fewer
\* than MIN_MMAP_BUFFERS fails without a mapping, a queued buffer or a
\* stream-on; one that succeeds on a camera granting more has queried,
\* mapped and queued exactly the granted number of buffers.
C22_GrantDecides ==
    [][\A t \in Threads :
          StartNewStep(t) /\ CallCount(thr'[t].calls, "VIDIOC_REQBUFS") > 0
          => /\ prof.grant < MIN_MMAP_BUFFERS
                => /\ thr'[t].retcd < 0
                   /\ regions' = regions
                   /\ CallCount(thr'[t].calls, "VIDIOC_QUERYBUF") = 0
                   /\ CallCount(thr'[t].calls, "VIDIOC_QBUF") = 0
                   /\ CallCount(thr'[t].calls, "VIDIOC_STREAMON") = 0
                   /\ \A f \in FdIds : ~kfd'[f].streaming /\ kfd'[f].fifo = <<>>
             /\ prof.grant >= MIN_MMAP_BUFFERS /\ thr'[t].retcd >= 0
                => \E s \in Slots :
                      /\ dev'[s].fd_device = thr'[t].retcd
                      /\ dev'[s].buffer_count = prof.grant
                      /\ Len(dev'[s].priv.buffers) = prof.grant
                      /\ Cardinality(regions') = Cardinality(regions) + prof.grant
                      /\ CallCount(thr'[t].calls, "VIDIOC_QUERYBUF") = prof.grant
                      /\ CallCount(thr'[t].calls, "VIDIOC_QBUF") = prof.grant
                      /\ kfd'[thr'[t].retcd].nbufs = prof.grant
                      /\ kfd'[thr'[t].retcd].streaming]_vars

\* a v4l2_start without a hardware error failed on a camera that grants
\* one buffer
C22_Witness ==
    /\ prof.grant = 1
    /\ thr[1].pc = "idle" /\ thr[1].op = "start" /\ thr[1].retcd < 0
    /\ thr[1].faults = {}
    /\ CallCount(thr[1].calls, "VIDIOC_REQBUFS") = 1

\* 256 to the power k
RECURSIVE Pow256(_)
Pow256(k) == IF k = 0 THEN 1 ELSE 256 * Pow256(k - 1)

\* C25: the string v4l2_palette_fourcc gives for a palette index of the
\* table has four characters, the k-th of them with the code of byte k of
\* the entry's format code counted from the least significant one; for an
\* index below 0 or above V4L2_PALETTE_COUNT_MAX it is "NULL".
C25_FourccUnpacked ==
    \A t \in Threads :
       thr[t].op = "palette_fourcc"
       => IF thr[t].args[1] \in 0..V4L2_PALETTE_COUNT_MAX
          THEN /\ Len(thr[t].fourcc) = 4
               /\ \A k \in 1..4 :
                     Ord(thr[t].fourcc[k]) =
                        (palette_v4l2id(thr[t].args[1]) \div Pow256(k - 1)) % 256
          ELSE thr[t].fourcc = <<"N", "U", "L", "L">>

\* the fourcc of palette 17 was asked for and is "YU12"
C25_Witness ==
    /\ thr[2].op = "palette_fourcc" /\ thr[2].args = <<17>>
    /\ thr[2].fourcc = <<"Y", "U", "1", "2">>

\* thread t's step is a call of the query op
QueryStep(t, op) ==
    /\ thr[t].pc = "idle" /\ thr'[t].op = op /\ thr'[t] # thr[t]

\* the format code of the catalog entry of palette index id is among the
\* formats the camera enumerates
Enumerated(id) ==
    /\ id \in 0..V4L2_PALETTE_COUNT_MAX
    /\ \E i \in 1..Len(prof.fmts) : prof.fmts[i] = palette_v4l2id(id)

\* C24: v4l2_palette_valid returns 1 exactly when it could open the device
\* and the catalog code of the palette index is among the formats the
\* device enumerates, and 0 otherwise; the call leaves the list of devices,
\* every device record, the mappings, the descriptors and the hardware as
\* they were.
C24_PaletteValid ==
    [][\A t \in Threads :
          QueryStep(t, "palette_valid")
          => /\ thr'[t].retcd = IF thr'[t].args[3] >= 0 /\ Enumerated(thr'[t].args[2])
                                THEN 1 ELSE 0
             /\ video_devices' = video_devices
             /\ dev' = dev
             /\ regions' = regions
             /\ kfd' = kfd
             /\ hwsel' = hwsel /\ hwctl' = hwctl
             /\ crashed' = crashed]_vars

\* the camera enumerates, for the catalog code of palette index id, the
\* frame size width x height with the frame interval 1/fps
ModeEnumerated(id, fps, width, height) ==
    /\ Enumerated(id)
    /\ \E j \in 1..Len(K_ENUM_FRAMESIZES(prof, palette_v4l2id(id))) :
          /\ K_ENUM_FRAMESIZES(prof, palette_v4l2id(id))[j].width = width
          /\ K_ENUM_FRAMESIZES(prof, palette_v4l2id(id))[j].height = height
          /\ \E k \in 1..Len(K_ENUM_FRAMESIZES(prof, palette_v4l2id(id))[j].ivals) :
                K_ENUM_FRAMESIZES(prof, palette_v4l2id(id))[j].ivals[k] =
                   Frameint(1, fps)

\* C23: v4l2_parms_valid returns 1 exactly when it could open the device
\* and the device enumerates, for the catalog code of the palette index,
\* the frame size width x height with the frame interval 1/fps, and 0
\* otherwise; the process survives the call.
C23_ParmsValid ==
    [][\A t \in Threads :
          QueryStep(t, "parms_valid")
          => /\ thr'[t].retcd =
                   IF /\ thr'[t].args[6] >= 0
                      /\ ModeEnumerated(thr'[t].args[2], thr'[t].args[3],
                                        thr'[t].args[4], thr'[t].args[5])
                   THEN 1 ELSE 0
             /\ crashed' = crashed]_vars

\* a step inserts or removes a list entry, relinks one, or changes a
\* usage_count
RegistryChanged ==
    \/ video_devices' # video_devices
    \/ \E s \in Slots : \/ dev'[s].live # dev[s].live
                        \/ dev'[s].next # dev[s].next
                        \/ dev'[s].usage_count # dev[s].usage_count

\* C26: every step of a thread that inserts, removes or relinks a list
\* entry, or changes a usage_count, is taken while that thread holds
\* v4l2_mutex
C26_RegistryUnderLock ==
    [][\A t \in Threads :
          (thr'[t] # thr[t] /\ RegistryChanged) => v4l2_mutex = t]_vars

\* C27: while a thread negotiates a device that was not in the list (it is
\* between the allocation of the entry and the return of v4l2_start),
\* v4l2_mutex is free, so that the lookup of another thread's v4l2_start or
\* v4l2_next can proceed
C27_NegotiationUnlocked ==
    \A t \in Threads : thr[t].pc = "s_new" => v4l2_mutex = NULL

\* the devices of the list that stream
Streaming ==
    {s \in Slots : /\ dev[s].live /\ dev[s].priv # NoPrivate
                   /\ dev[s].priv.buffers # NoBuffers
                   /\ KOf(FdOf(dev[s])).streaming}

\* C28: in a streaming device every mapped buffer is either queued to the
\* kernel or owned by the consumer (it is the in-flight buffer pframe),
\* never both and never neither.
C28_QueuedOrOwned ==
    \A s \in Streaming :
        LET vid == dev[s].priv
            k == KOf(FdOf(dev[s]))
        IN  \A indx \in 0..(Len(vid.buffers) - 1) :
                (k.bstate[indx + 1] = "queued") <=> (vid.pframe # indx)

\* C29: a v4l2_next that makes one capture passes the in-flight buffer to
\* its VIDIOC_QBUF when there is one, issues no VIDIOC_QBUF when there is
\* none, and on success has recorded the dequeued index as pframe, with the
\* filled length of that buffer.
C29_RequeuesInFlight ==
    [][\A t \in Threads :
          OneCaptureStep(t) =>
              LET s == thr[t].dev
                  vid == dev[s].priv
                  after == dev'[s].priv
              IN  /\ vid.pframe >= 0 => vid.buf_index = vid.pframe
                  /\ vid.pframe < 0 =>
                        CallCount(thr'[t].calls, "VIDIOC_QBUF") = 0
                  /\ thr'[t].retcd = 0 =>
                        /\ after.pframe = after.buf_index
                        /\ after.buffers[after.pframe + 1].used = 1]_vars

\* the requests of v4l2_mmap_set among calls, in the order they were made;
\* VIDIOC_QUERYBUF stands for v4l2_mmap_query, which queries and maps one
\* buffer
PoolReqs == {"VIDIOC_REQBUFS", "VIDIOC_QUERYBUF", "VIDIOC_QBUF", "VIDIOC_STREAMON"}
PoolCalls(calls) ==
    LET IsPool(c) == c.req \in PoolReqs
        sel == SelectSeq(calls, IsPool)
    IN  [k \in 1..Len(sel) |-> sel[k].req]

IsPrefix(a, b) == Len(a) <= Len(b) /\ SubSeq(b, 1, Len(a)) = a

\* the setup of n buffers, each one mapped and enqueued in its turn
SetupInTurn(n) ==
    <<"VIDIOC_REQBUFS">>
    \o [k \in 1..(2 * n) |-> IF k % 2 = 1 THEN "VIDIOC_QUERYBUF" ELSE "VIDIOC_QBUF"]
    \o <<"VIDIOC_STREAMON">>

\* the setup of n buffers in phases: all mapped, then all enqueued
SetupInPhases(n) ==
    <<"VIDIOC_REQBUFS">>
    \o [k \in 1..(2 * n) |-> IF k <= n THEN "VIDIOC_QUERYBUF" ELSE "VIDIOC_QBUF"]
    \o <<"VIDIOC_STREAMON">>

\* C30: the pool requests of a v4l2_start are, in this order, the request
\* of the buffers, then for each granted buffer in index order its mapping
\* followed by its enqueueing, then the stream-on: all of them when the
\* start succeeds, a beginning of them when it fails.  After a successful
\* start every buffer is mapped and queued and the device streams.
C30_SetupInTurn ==
    [][\A t \in Threads :
          StartNewStep(t) =>
              LET made == PoolCalls(thr'[t].calls) IN
              /\ IsPrefix(made, SetupInTurn(prof.grant))
              /\ thr'[t].retcd >= 0 =>
                    /\ made = SetupInTurn(prof.grant)
                    /\ \E s \in Slots :
                          /\ dev'[s].live /\ dev'[s].fd_device = thr'[t].retcd
                          /\ \A i \in 1..prof.grant :
                                /\ dev'[s].priv.buffers[i].ptr # NULL
                                /\ kfd'[thr'[t].retcd].bstate[i] = "queued"
                          /\ kfd'[thr'[t].retcd].streaming]_vars

\* a v4l2_start has succeeded on a camera that grants at least two buffers
C30_Witness ==
    /\ prof.grant >= MIN_MMAP_BUFFERS
    /\ thr[1].pc = "idle" /\ thr[1].op = "start" /\ thr[1].retcd >= 0
    /\ PoolCalls(thr[1].calls) = SetupInTurn(prof.grant)

\* C30 as stated: every granted buffer is mapped before the first one is
\* enqueued
C30_SetupInPhases ==
    [][\A t \in Threads :
          StartNewStep(t) =>
              IsPrefix(PoolCalls(thr'[t].calls), SetupInPhases(prof.grant))]_vars

\* the steps of v4l2_cleanup that close and that unmap the device
CloseStep(t) == thr[t].pc = "c_close" /\ thr'[t].pc = "c_unmap"
UnmapStep(t) == thr[t].pc = "c_unmap" /\ thr'[t].pc = "c_unlink"

\* the place of the first call of request req in calls, 0 without one
FirstCall(calls, req) ==
    IF CallCount(calls, req) = 0 THEN 0
    ELSE SetMin({k \in 1..Len(calls) : calls[k].req = req})

\* C31: in the teardown of a device the close step signals stream-off,
\* leaves the device not streaming and unmaps nothing; the unmap step runs
\* on a device that does not stream, after the stream-off, unmaps every
\* mapped buffer and releases the buffer array with the private state.
C31_TeardownOrder ==
    [][\A t \in Threads :
          LET s == thr[t].dev IN
          /\ (CloseStep(t) /\ ~crashed') =>
                /\ regions' = regions
                /\ dev'[s].priv.buffers = dev[s].priv.buffers
                /\ CallCount(thr'[t].calls, "VIDIOC_STREAMOFF") = 1
                /\ \A f \in FdIds :
                      kfd'[f].streaming => kfd'[f].path # dev[s].video_device
          /\ (UnmapStep(t) /\ ~crashed') =>
                /\ \A f \in FdIds :
                      kfd[f].streaming => kfd[f].path # dev[s].video_device
                /\ FirstCall(thr'[t].calls, "VIDIOC_STREAMOFF") > 0
                /\ FirstCall(thr'[t].calls, "VIDIOC_STREAMOFF")
                      < FirstCall(thr'[t].calls, "munmap")
                /\ \A i \in 1..Len(dev[s].priv.buffers) :
                      /\ dev[s].priv.buffers[i].ptr \in regions
                      /\ dev[s].priv.buffers[i].ptr \notin regions'
                /\ Len(dev[s].priv.buffers) = prof.grant
                /\ dev'[s].priv = NoPrivate]_vars

UnlinkStep(t) == thr[t].pc = "c_unlink" /\ thr'[t].pc = "idle"

\* C32: no step of a teardown (stream-off and close, unmap and free,
\* unlink) is taken while another consumer is between the acquisition of
\* the same device in v4l2_next and the end of its capture.
C32_NoTeardownDuringCapture ==
    [][\A t, u \in Threads :
          (/\ t # u
           /\ CloseStep(t) \/ UnmapStep(t) \/ UnlinkStep(t))
          => ~(thr[u].pc = "n_frame" /\ thr[u].dev = thr[t].dev)]_vars

\* the stages of v4l2_start from stage to last, as StartChain runs them
RECURSIVE StartPrefix(_, _, _, _, _, _)
StartPrefix(w, P, F, fd, stage, last) ==
    IF stage > last \/ w.retcd # 0 THEN w
    ELSE StartPrefix(StartStage(w, P, F, fd, stage), P, F, fd, stage + 1, last)

\* the stages of v4l2_device_select from stage to last
RECURSIVE SelectPrefix(_, _, _, _, _)
SelectPrefix(w, P, F, stage, last) ==
    IF stage > last \/ w.retcd # 0 THEN w
    ELSE SelectPrefix(SelectStage(w, P, F, {}, {}, stage), P, F, stage + 1, last)

\* what v4l2_ctrls_set is called with by the v4l2_start step of thread t
StartBeforeCtrls(t) ==
    LET w == World(cnt[t], NoDev, KClosed, cnt[t].conf_video_device)
    IN  StartPrefix(StartInit(w, vid_parms_parse(v4l2_vdev_init(cnt[t]))), prof,
                    thr'[t].faults, SetMin(FreeFds \cup {-1}), 1, 9)

\* what v4l2_ctrls_set is called with by the v4l2_next step of thread t
NextBeforeCtrls(t) ==
    LET w0 == Framed(WorldOf(t, thr[t].dev), cnt'[t].image)
        w == [w0 EXCEPT !.cnt = vid_parms_parse(w0.cnt)]
    IN  SelectPrefix(w, prof, thr'[t].faults,
                     IF SelectionChanged(w) THEN 1 ELSE 4, 5)

\* the descriptors an apply cycle has to set
Differing(ctrls) == {i \in 1..Len(ctrls) : NeedsSet(ctrls[i])}

\* control and value of a VIDIOC_S_CTRL for each descriptor of I from
\* indx on, in index order
RECURSIVE Attempts(_, _, _)
Attempts(ctrls, I, indx) ==
    IF indx > Len(ctrls) THEN <<>>
    ELSE (IF indx \in I THEN <<(<<ctrls[indx].ctrl_id, ctrls[indx].ctrl_newval>>)>>
          ELSE <<>>) \o Attempts(ctrls, I, indx + 1)

\* control and value of the VIDIOC_S_CTRL calls among calls, in order
SetCallSeq(calls) ==
    LET IsSet(c) == c.req = "VIDIOC_S_CTRL"
        sel == SelectSeq(calls, IsSet)
    IN  [k \in 1..Len(sel) |-> <<sel[k].arg, sel[k].val>>]

\* an apply cycle on the descriptors before, with the errors F, made the
\* calls made and left the descriptors after and the hardware values hw
Applied(before, F, made, after, hw) ==
    LET first == Differing(before)
        failed == first \cap Rej1(F)
    IN  /\ made = Attempts(before, first, 1) \o Attempts(before, failed, 1)
        /\ \A i \in first \ (failed \cap Rej2(F)) :
              /\ after[i].ctrl_currval = before[i].ctrl_newval
              /\ after[i].ctrl_newval = before[i].ctrl_newval
              /\ hw[before[i].ctrl_id] = before[i].ctrl_newval
        /\ \A i \in (1..Len(before)) \ first : after[i] = before[i]

\* C33: a v4l2_ctrls_set attempts, in index order, exactly the descriptors
\* that are no menu items and whose requested value differs from the current
\* one, then once more exactly those whose first attempt failed, and nothing
\* else; a descriptor whose attempt succeeded holds the requested value as
\* its current value, as does the hardware; the other descriptors are
\* untouched.
C33_ApplyCycle ==
    [][\A t \in Threads :
          /\ (StartNewStep(t) /\ StartBeforeCtrls(t).retcd = 0) =>
                LET b == StartBeforeCtrls(t)
                    r == CtrlsSetW(b, Rej1(thr'[t].faults), Rej2(thr'[t].faults))
                IN  Applied(b.dev.devctrl, thr'[t].faults,
                            SetCallSeq(thr'[t].calls), r.dev.devctrl, r.ctl)
          /\ (NextFrameStep(t) /\ dev[thr[t].dev].priv # NoPrivate
                /\ NextBeforeCtrls(t).retcd = 0 /\ ~crashed') =>
                LET b == NextBeforeCtrls(t)
                    s == thr[t].dev
                IN  Applied(b.dev.devctrl, thr'[t].faults,
                            SetCallSeq(thr'[t].calls), dev'[s].devctrl,
                            hwctl'[dev[s].video_device])]_vars

\* a v4l2_start has set three controls, the driver refused one of them in
\* the first pass and took it in the second: that control was attempted
\* twice, the two others once, and the handle holds the requested value
C33_Witness ==
    \E t \in Threads, s \in Slots : \E i \in Rej1(thr[t].faults) \ Rej2(thr[t].faults) :
        LET made == SetCallSeq(thr[t].calls)
            d == dev[s]
        IN  /\ thr[t].pc = "idle" /\ thr[t].op = "start" /\ d.live
            /\ d.priv # NoPrivate
            /\ Len(made) = 4
            /\ i \in 1..Len(d.devctrl)
            /\ made[4] = <<d.devctrl[i].ctrl_id, d.devctrl[i].ctrl_newval>>
            /\ Cardinality({k \in 1..3 : made[k] = made[4]}) = 1
            /\ d.devctrl[i].ctrl_currval = d.devctrl[i].ctrl_newval
            /\ hwctl[d.video_device][d.devctrl[i].ctrl_id] = d.devctrl[i].ctrl_newval

\* what v4l2_autobright is called with by the v4l2_next step of thread t
NextBeforeAuto(t) ==
    LET w0 == Framed(WorldOf(t, thr[t].dev), cnt'[t].image)
        w == [w0 EXCEPT !.cnt = vid_parms_parse(w0.cnt)]
    IN  SelectPrefix(w, prof, thr'[t].faults,
                     IF SelectionChanged(w) THEN 1 ELSE 4, 4)

\* the descriptors auto_brightness works on under method
AutoTargets(ctrls, method) ==
    IF method \in 1..3
    THEN {i \in 1..Len(ctrls) : ctrls[i].ctrl_id = AutoTargetId(method)}
    ELSE {}

\* C34: v4l2_autobright makes no device call and leaves the hardware, the
\* context with its user parameters and the device record as they are,
\* except the requested value of the one descriptor of the control its
\* method works on; with method 0 or a method above 3 it leaves everything
\* as it is.
C34_StagesOnly ==
    [][\A t \in Threads :
          (NextFrameStep(t) /\ dev[thr[t].dev].priv # NoPrivate
             /\ NextBeforeAuto(t).retcd = 0) =>
            LET b == NextBeforeAuto(t)
                a == AutobrightW(b)
                method == b.cnt.conf_auto_brightness
                target == AutoTargets(b.dev.devctrl, method)
            IN  /\ a.calls = b.calls /\ a.ctl = b.ctl /\ a.k = b.k
                /\ a.sel = b.sel /\ a.regions = b.regions
                /\ a.cnt = b.cnt
                /\ Cardinality(target) <= 1
                /\ Len(a.dev.devctrl) = Len(b.dev.devctrl)
                /\ \A i \in 1..Len(b.dev.devctrl) :
                      IF i \in target
                      THEN a.dev.devctrl[i] =
                             [b.dev.devctrl[i] EXCEPT
                                !.ctrl_newval = a.dev.devctrl[i].ctrl_newval]
                      ELSE a.dev.devctrl[i] = b.dev.devctrl[i]
                /\ [a.dev EXCEPT !.devctrl = b.dev.devctrl] = b.dev
                /\ \A i \in 1..Len(b.dev.devctrl) :
                      dev'[thr[t].dev].devctrl[i].ctrl_currval
                          # b.dev.devctrl[i].ctrl_currval
                      => /\ i \in target
                         /\ Len(SetCallSeq(thr'[t].calls)) = 1]_vars

\* a v4l2_next under method 2 has moved the exposure and nothing else: the
\* brightness and the absolute exposure are where the driver had them
C34_Witness ==
    \E t \in Threads, s \in Slots :
        /\ thr[t].pc = "idle" /\ thr[t].op = "next" /\ dev[s].live
        /\ cnt[t].conf_auto_brightness = 2
        /\ Len(dev[s].devctrl) = 3
        /\ dev[s].devctrl[2].ctrl_currval # AutoCtrls[2].default_value
        /\ dev[s].devctrl[2].ctrl_currval # 10
        /\ dev[s].devctrl[1].ctrl_currval = AutoCtrls[1].default_value
        /\ dev[s].devctrl[3].ctrl_currval = AutoCtrls[3].default_value
        /\ SetCallSeq(thr[t].calls) =
              <<(<<V4L2_CID_EXPOSURE, dev[s].devctrl[2].ctrl_currval>>)>>

\* the width of a line of wd pixels in bpl bytes after the padding of lines
\* 845-857 (wd > 0)
PaddedWidth(wd, bpl) ==
    IF bpl = 0 \/ wd >= bpl \/ bpl % wd = 0 THEN wd
    ELSE wd + ((bpl % wd) \div (bpl \div wd))

\* the size the driver of the camera answers a request of thread t with,
\* the width padded
AnsweredSize(t) ==
    LET fmt == K_TRY_FMT(prof, RoundUp8(cnt[t].conf_width),
                         RoundUp8(cnt[t].conf_height), V4L2_PIX_FMT_YUYV)
    IN  <<PaddedWidth(fmt.width, fmt.bytesperline), fmt.height>>

\* C35: the width and the height of every opened device are multiples of 8
\* and are the size the consumer is left with; a v4l2_start whose driver
\* answers with a size (the width padded to the stride) that is not the
\* requested one and not a multiple of 8 in both dimensions fails without
\* a VIDIOC_S_FMT.
C35_AlignedOrAborted ==
    [][ /\ \A s \in Slots :
            dev'[s].live =>
               /\ cmod(dev'[s].width, 8) = 0 /\ cmod(dev'[s].height, 8) = 0
               /\ dev'[s].priv # NoPrivate =>
                     dev'[s].width = PaddedWidth(dev'[s].priv.dst_fmt.width,
                                                 dev'[s].priv.dst_fmt.bytesperline)
        /\ \A t \in Threads :
            StartNewStep(t) =>
               LET got == AnsweredSize(t)
                   asked == <<RoundUp8(cnt[t].conf_width), RoundUp8(cnt[t].conf_height)>>
               IN  /\ (got # asked /\ (got[1] % 8 # 0 \/ got[2] % 8 # 0)) =>
                         /\ thr'[t].retcd = -1
                         /\ CallCount(thr'[t].calls, "VIDIOC_S_FMT") = 0
                         /\ thr'[t].faults = {} =>
                               CallCount(thr'[t].calls, "VIDIOC_TRY_FMT") = 2
                   /\ thr'[t].retcd >= 0 =>
                         /\ <<cnt'[t].conf_width, cnt'[t].conf_height>> = got
                         /\ \E s \in Slots :
                               /\ dev'[s].live
                               /\ <<dev'[s].width, dev'[s].height>> = got]_vars

\* a device opened at 24 x 8: the driver answered a request of 16 x 8 with
\* lines of 16 pixels in 24 bytes
C35_Witness ==
    \E s \in Slots :
        /\ dev[s].live /\ dev[s].priv # NoPrivate
        /\ dev[s].width = 24 /\ dev[s].height = 8
        /\ dev[s].priv.dst_fmt.width = 16
        /\ dev[s].priv.dst_fmt.bytesperline = 24
        /\ \E t \in Threads : cnt[t].conf_width = 24 /\ thr[t].op = "start"

\* C36: with the shutdown flag set, an ioctl of a query that a signal
\* interrupts is not issued again: the first VIDIOC_ENUM_FMT of
\* v4l2_palette_valid and of v4l2_parms_valid is issued once and ends the
\* enumeration.
C36_NoRetryAfterShutdown ==
    [][\A t \in Threads :
          /\ (QueryStep(t, "palette_valid") /\ thr'[t].args[4] > 0 /\ cnt[t].finish) =>
                CallCount(thr'[t].calls, "VIDIOC_ENUM_FMT") = 1
          /\ (QueryStep(t, "parms_valid") /\ thr'[t].args[7] > 0 /\ cnt[t].finish) =>
                CallCount(thr'[t].calls, "VIDIOC_ENUM_FMT") = 1]_vars

\* the consumers inside an ownership window of the device of slot s: between
\* the acquisition of v4l2_next and the release
InWindow(s) ==
    {t \in Threads :
        \/ thr[t].pc = "n_frame" /\ thr[t].dev = s
        \/ dev[s].live /\ dev[s].owner = cnt[t].threadnr
           /\ cnt[t].video_dev = dev[s].fd_device}

\* C37: every device has at most one consumer inside an ownership window,
\* and its owner field names a consumer exactly when that consumer holds
\* the mutex of the device.
C37_OneOwner ==
    \A s \in Slots :
        /\ Cardinality(InWindow(s)) <= 1
        /\ dev[s].live =>
              /\ dev[s].owner = NoOwner <=> dev[s].mutex = NULL
              /\ dev[s].mutex # NULL => dev[s].owner = cnt[dev[s].mutex].threadnr

\* C38: on every opened device, between the calls of the capture layer,
\* every descriptor that is no menu item has its requested value equal to
\* its current value, and a v4l2_ctrls_set on it makes no VIDIOC_S_CTRL.
C38_Settled ==
    \A s \in Slots, t \in Threads :
        (dev[s].live /\ dev[s].priv # NoPrivate /\ ~crashed) =>
            /\ \A i \in 1..Len(dev[s].devctrl) :
                  ~dev[s].devctrl[i].ctrl_menuitem =>
                     dev[s].devctrl[i].ctrl_newval = dev[s].devctrl[i].ctrl_currval
            /\ v4l2_ctrls_set(cnt[t], dev[s], hwctl[dev[s].video_device],
                              prof.rejects, prof.rejects).calls = <<>>

\* a device opened by a consumer who asked for white balance 0 on a driver
\* that refused it twice: requested and current value are the driver's 1,
\* after two VIDIOC_S_CTRL on it
C38_Witness ==
    \E s \in Slots, t \in Threads :
        /\ dev[s].live /\ dev[s].priv # NoPrivate
        /\ thr[t].pc = "idle" /\ thr[t].op = "start" /\ thr[t].retcd >= 0
        /\ Fault("VIDIOC_S_CTRL retry", 5) \in thr[t].faults
        /\ Len(dev[s].devctrl) = 5
        /\ dev[s].devctrl[5].ctrl_id = V4L2_CID_AUTO_WHITE_BALANCE
        /\ dev[s].devctrl[5].ctrl_newval = 1 /\ dev[s].devctrl[5].ctrl_currval = 1
        /\ Cardinality(SetCalls(thr[t].calls, V4L2_CID_AUTO_WHITE_BALANCE)) = 2
        /\ cnt[t].conf_params[3] = Param("white balance, automatic", 0)

\* thread t is at the pthread_mutex_lock of v4l2_next
AtDeviceLock(t) == thr[t].pc = "n_own"

\* the device keeps delivering: no v4l2_next stays in its capture for ever
Delivering == \A t \in Threads : []<>(thr[t].pc # "n_frame")

\* C39: no thread is at the lock of a device mutex while it holds the
\* registry mutex, and, when the device keeps delivering, a consumer that
\* has reached the device lock of v4l2_next gets past it and returns from
\* the call.
C39_NextReturns ==
    /\ [](\A t \in Threads : AtDeviceLock(t) => v4l2_mutex # t)
    /\ Delivering =>
          \A t \in Threads :
             AtDeviceLock(t) ~> (thr[t].pc = "idle" /\ thr[t].op = "next")

\* the calls of v4l2_next the owner of the device of slot s has completed
\* in its ownership window, read from the quota that is left
CallsMade(t, s) == cnt[t].conf_roundrobin_frames - dev[s].frames

============================================================================
